---- MODULE Spec2Model ----
(***************************************************************************)
(* State-machine model of the interaction core of the sun widget library:  *)
(*   - PushButtonModel            (src/js/demo/ComponentsScreenView.ts)     *)
(*   - AccessibleNumberSpinner    (src/js/buttons/                          *)
(*                                 BooleanRectangularToggleButton.ts)       *)
(*   - ComboBox                   (src/js/ComboBox.ts, src/unnamed/part_000)*)
(*   - ComboBox, 2018 version     (src/unnamed/part_011)                    *)
(*   - MomentaryButtonModel       (used by RectangularMomentaryButton.ts)   *)
(* Each component has its own variables, actions and specification; the    *)
(* components do not share state, so each specification leaves the other   *)
(* components' variables unchanged.                                         *)
(***************************************************************************)
EXTENDS Integers, Sequences, FiniteSets, TLC

VARIABLES
  \* ---- PushButtonModel: PropertySet { over, down, enabled } and options
  over, down, enabled,
  fireOnDown,          \* options.fireOnDown, fixed at construction
  fireCount,           \* number of times fire() has run (what the listeners observe)
  leftWhileDown,       \* history: over went false during the current press
  disabledWhileDown,   \* history: enabled was false at some moment of the current press
  firesThisPress,      \* history: fire() calls since the last down -> true
  pushLast,            \* history: the last setter called, [prop, value]
  \* ---- AccessibleNumberSpinner
  spinnerEnabled,             \* enabledProperty of the node
  downCallback,               \* the callback bound at keydown (the key it is bound to), or NoKey
  runningTimerCallbackEvent,  \* the DOM event that started the timer (its key code), or NoKey
  timerCallbacks,             \* _callbackTimer's registered callbacks, in order
  timerPhase,                 \* _callbackTimer: "stopped", "delay" (delayID set) or "interval" (intervalID set)
  timerWait,                  \* ms until the pending timeout / interval is due
  actionCount,                \* calls of _accessibleNumberSpinnerHandleKeyDown so far
  spinEmitted,                \* emissions of the last step: set of [emitter, isDown]
  startCount,                 \* history: actionCount just before the keydown that started the timer
  sinceStart,                 \* history: ms since the timer was started
  spinLast,                   \* history: the last input, [type, key, meta, prevented,
  spinListenerOn,      \* accessibleInputListener is among the node's input listeners
  spinDisposed,        \* history: dispose() has returned
                              \* wasRunning (the timer was running when it arrived)]
  \* ---- ComboBox
  listBoxVisible,      \* listBox.visibleProperty.value
  display,             \* this.display: the display the dismiss listener was added to, or NoDisplay
  dismissListenerOn,   \* the displays whose input listeners include clickToDismissListener
  assertFailed,        \* the 'unexpected display' assertion has failed
  rootedDisplay,       \* getUniqueTrail().rootNode().getRootedDisplays()[ 0 ]
  displayOnly,         \* displayOnlyProperty.value
  pickable,            \* this.pickable
  fuzzEnabled,         \* phet.chipper.isFuzzEnabled(), fixed for a run
  pdomFocus,           \* FocusManager.pdomFocusProperty: where the focus trail ends
  focusListenerLinked, \* dismissWithFocusListener is linked to pdomFocusProperty
  comboValue,          \* the value cell (property) the ComboBox controls
  comboDisposed,       \* dispose() has returned
  rootedAtShow,        \* history: rootedDisplay when the list was last shown
  comboLast,           \* history: the last operation, [op, target, delivered, wasVisible]
  comboPrev,           \* history: the operation before it
  \* ---- ComboBox, 2018 version (list node owned by the ComboBox)
  listNodeVisible,               \* listNode.visible
  legacyDisplay,                 \* this.display
  legacyListenerOn,              \* displays whose input listeners include clickToDismissListener
  enableClickToDismissListener,  \* false until the listener has seen the 'down' that opened the list
  fromA11yEnterKey,              \* an item was just selected with the enter key
  legacyRooted,                  \* getUniqueTrail().rootNode().getRootedDisplays()[ 0 ]
  legacyValue,                   \* property.value
  legacyLast,                    \* history: the last event, [op, item, wasVisible]
  legacyPrev,                    \* history: the event before the last
  legacyDisposed,                \* disposeComboBox has run
  legacyItemsDisposed,           \* indices of the listItemNodes that were disposed
  legacyDelivered,               \* history: the last event was a 'down' that reached
                                 \* clickToDismissListener
  \* ---- MomentaryButtonModel
  momentaryOver,        \* the pointer is over the button
  momentaryDown,        \* the button is held down
  momentaryEnabled,     \* the button is enabled
  momentaryFocused,     \* the button has focus
  momentaryValue,       \* the controlled value cell: "valueOff" or "valueOn"
  momentaryPresses,     \* history: presses that took effect
  momentaryLast,        \* history: the last event, [op, wasOn, wasOver]
  \* ---- radio button group (AquaRadioButton / RadioButton sharing one Property)
  radioProperty,        \* the shared value cell: a button's value, or NoRadioValue
  selectedNodeVisible,  \* per button: selectedNode.visible (deselectedNode is the opposite)
  radioOver,            \* per button: the pointer is over it
  radioDown,            \* per button: it is held down
  radioFocus,           \* the button that has focus, or NoRadioValue
  radioActivations,     \* history: logical activations (one press-release, one key selection)
  radioFireCalls,       \* history: calls of fire(), each of which plays the sound once
  radioLast,            \* history: the last event, [op, button, both]
  radioEnabled,         \* the buttons' enabled flag
  \* ---- ToggleButton (simple toggle button with an accessibility peer)
  toggleValue,          \* booleanProperty.value
  togglePeerChecked,    \* the peer element's 'checked' attribute
  toggleActivations,    \* history: logical activations of the button
  toggleLast,           \* history: the last event, [op, both, before]
  \* ---- several ComboBox instances in one display
  pairCore,             \* per instance: its record as in ComboCore
  pairFocus,            \* FocusManager.pdomFocusProperty: <<kind, instance>>
  pairLast,             \* history: the last operation, [op, instance, wasOpen]
  \* toggle buttons (ToggleButtonInteractionStateProperty over their button models)
  tbOver,               \* [ToggleButtons -> BOOLEAN], overProperty
  tbDown,               \* [ToggleButtons -> BOOLEAN], downProperty
  tbEnabled,            \* [ToggleButtons -> BOOLEAN], enabledProperty
  tbInteractionState,   \* [ToggleButtons -> state], the derived property's value
  tbLast,               \* history: the last event, [op, button]
  \* ---- disposal of the button views and their button models
  disposedParts,        \* [Buttons -> Seq({"view", "model"})], what dispose() has disposed so far
  disposeLast,          \* history: the button whose dispose() ran last
  \* ---- ComboBoxButton: voicing response on focus
  blockNextVoicing,     \* _blockNextVoicingFocusListener
  voButtonFocused,      \* the button has focus
  focusEvents,          \* history: focus events the button has received
  defaultFocusCalls,    \* history: calls of defaultFocusListener
  voicingLast,          \* history: the last event, [op, called]
  voicingPrev,          \* history: the event before the last
  \* ---- RadioButton (2017): _enabled, pickable and the shared property
  rbProperty,           \* property.value
  rbEnabled,            \* [Radios -> BOOLEAN], _enabled
  rbPickable,           \* [Radios -> BOOLEAN], pickable
  rbLast                \* history: the last event, [op, button, arg]

pushVars == <<over, down, enabled, fireOnDown, fireCount, leftWhileDown,
              disabledWhileDown, firesThisPress, pushLast>>

spinVars == <<spinnerEnabled, downCallback, runningTimerCallbackEvent, timerCallbacks,
              timerPhase, timerWait, actionCount, spinEmitted, startCount, sinceStart,
              spinLast, spinListenerOn, spinDisposed>>

comboVars == <<listBoxVisible, display, dismissListenerOn, assertFailed, rootedDisplay,
               displayOnly, pickable, fuzzEnabled, pdomFocus, focusListenerLinked,
               comboValue, comboDisposed, rootedAtShow, comboLast, comboPrev>>

legacyVars == <<listNodeVisible, legacyDisplay, legacyListenerOn,
                enableClickToDismissListener, fromA11yEnterKey, legacyRooted,
                legacyValue, legacyLast, legacyPrev, legacyDelivered, legacyDisposed,
                legacyItemsDisposed>>

momentaryVars == <<momentaryOver, momentaryDown, momentaryEnabled, momentaryFocused,
                   momentaryValue, momentaryPresses, momentaryLast>>

radioVars == <<radioProperty, selectedNodeVisible, radioOver, radioDown, radioFocus,
               radioActivations, radioFireCalls, radioLast, radioEnabled>>

toggleVars == <<toggleValue, togglePeerChecked, toggleActivations, toggleLast>>

pairVars == <<pairCore, pairFocus, pairLast>>

tbVars == <<tbOver, tbDown, tbEnabled, tbInteractionState, tbLast>>

bdVars == <<disposedParts, disposeLast>>

voVars == <<blockNextVoicing, voButtonFocused, focusEvents, defaultFocusCalls, voicingLast, voicingPrev>>

rbVars == <<rbProperty, rbEnabled, rbPickable, rbLast>>

vars == <<pushVars, spinVars, comboVars, legacyVars, momentaryVars, radioVars, toggleVars, pairVars, tbVars, bdVars, voVars, rbVars>>

\* What each component leaves alone.
notPush == <<spinVars, comboVars, legacyVars, momentaryVars, radioVars, toggleVars, pairVars, tbVars, bdVars, voVars, rbVars>>
notSpin == <<pushVars, comboVars, legacyVars, momentaryVars, radioVars, toggleVars, pairVars, tbVars, bdVars, voVars, rbVars>>
notCombo == <<pushVars, spinVars, legacyVars, momentaryVars, radioVars, toggleVars, pairVars, tbVars, bdVars, voVars, rbVars>>
notLegacy == <<pushVars, spinVars, comboVars, momentaryVars, radioVars, toggleVars, pairVars, tbVars, bdVars, voVars, rbVars>>
notMomentary == <<pushVars, spinVars, comboVars, legacyVars, radioVars, toggleVars, pairVars, tbVars, bdVars, voVars, rbVars>>
notToggle == <<pushVars, spinVars, comboVars, legacyVars, momentaryVars, radioVars, pairVars, tbVars, bdVars, voVars, rbVars>>
notRadio == <<pushVars, spinVars, comboVars, legacyVars, momentaryVars, toggleVars, pairVars, tbVars, bdVars, voVars, rbVars>>
notTb == <<pushVars, spinVars, comboVars, legacyVars, momentaryVars, radioVars, toggleVars, pairVars, bdVars, voVars, rbVars>>
notPair == <<pushVars, spinVars, comboVars, legacyVars, momentaryVars, radioVars, toggleVars, tbVars, bdVars, voVars, rbVars>>
notVo == <<pushVars, spinVars, comboVars, legacyVars, momentaryVars, radioVars, toggleVars, pairVars, tbVars, bdVars, rbVars>>
notBd == <<pushVars, spinVars, comboVars, legacyVars, momentaryVars, radioVars, toggleVars, pairVars, tbVars, voVars, rbVars>>
notRb == <<pushVars, spinVars, comboVars, legacyVars, momentaryVars, radioVars, toggleVars, pairVars, tbVars, bdVars, voVars>>

\* ---- bounds of the model
MaxFires == 3          \* fire() calls followed per behaviour
MaxActions == 5        \* spinner actions followed per behaviour
MaxSinceStart == 700   \* ms a running repeat timer is followed
NumDisplays == 2       \* displays the scene can be rooted in
NumItems == 2          \* items of the ComboBox
MaxPresses == 3        \* presses of the momentary button followed per behaviour
NumRadios == 2         \* buttons of the radio group
MaxActivations == 2    \* activations of a radio or toggle button followed per behaviour
NumComboBoxes == 2     \* ComboBox instances sharing the display
NumToggleButtons == 2    \* toggle buttons whose interaction state is followed
MaxFocusEvents == 4      \* focus events followed on the ComboBoxButton

(***************************************************************************)
(* PushButtonModel                                                         *)
(***************************************************************************)

\* fire: every registered listener is called once; the model counts the calls.
PushFire(n) == n + 1

\* The listener registered with property('down').onValue(true, ...).
PushDownTrueListener(en, n) ==
  IF fireOnDown /\ en THEN PushFire(n) ELSE n

\* A variant of the release listener that forgets the `over` test.
PushDownFalseListenerNoOver(ov, en, n) ==
  IF ~fireOnDown /\ en THEN PushFire(n) ELSE n

\* A variant of the release listener that forgets the fireOnDown policy.
PushDownFalseListenerAnyPolicy(ov, en, n) ==
  IF ov /\ en THEN PushFire(n) ELSE n

\* The listener registered with property('down').onValue(false, ...).
PushDownFalseListener(ov, en, n) ==
  IF ~fireOnDown /\ ov /\ en THEN PushFire(n) ELSE n

\* An interactionState that gives 'pressed' whenever the button is down.
PushInteractionStatePressedWhenDown(ov, dn, en) ==
  IF ~en THEN "disabled" ELSE IF dn THEN "pressed" ELSE IF ov THEN "over" ELSE "idle"

\* interactionState, the derived property of over, down and enabled.
PushInteractionState(ov, dn, en) ==
  IF ~en THEN "disabled"
  ELSE IF ov /\ ~dn THEN "over"
  ELSE IF ov /\ dn THEN "pressed"
  ELSE "idle"

PushInit ==
  /\ over = FALSE
  /\ down = FALSE
  /\ enabled = TRUE
  /\ fireOnDown \in BOOLEAN
  /\ fireCount = 0
  /\ leftWhileDown = FALSE
  /\ disabledWhileDown = FALSE
  /\ firesThisPress = 0
  /\ pushLast = [prop |-> "none", value |-> FALSE]

\* over := b (pointerEnter / pointerExit). No listener of the model observes over.
PushSetOver(b) ==
  /\ over' = b
  /\ leftWhileDown' = (leftWhileDown \/ (down /\ over /\ ~b))
  /\ pushLast' = [prop |-> "over", value |-> b]
  /\ UNCHANGED <<down, enabled, fireOnDown, fireCount, disabledWhileDown, firesThisPress>>

\* down := b (pointerDown / pointerUp). A Property notifies its listeners only when
\* the value changes; onValue(v) listeners run when the new value is v.
PushSetDown(b) ==
  /\ fireCount < MaxFires
  /\ down' = b
  /\ fireCount' = IF b = down THEN fireCount
                  ELSE IF b THEN PushDownTrueListener(enabled, fireCount)
                  ELSE PushDownFalseListener(over, enabled, fireCount)
  /\ leftWhileDown' = IF b /\ ~down THEN FALSE ELSE leftWhileDown
  /\ disabledWhileDown' = IF b /\ ~down THEN ~enabled ELSE disabledWhileDown
  /\ firesThisPress' = (IF b /\ ~down THEN 0 ELSE firesThisPress) + (fireCount' - fireCount)
  /\ pushLast' = [prop |-> "down", value |-> b]
  /\ UNCHANGED <<over, enabled, fireOnDown>>

\* enabled := b.
PushSetEnabled(b) ==
  /\ enabled' = b
  /\ disabledWhileDown' = (disabledWhileDown \/ (down /\ ~b))
  /\ pushLast' = [prop |-> "enabled", value |-> b]
  /\ UNCHANGED <<over, down, fireOnDown, fireCount, leftWhileDown, firesThisPress>>

PushNext ==
  \/ (\E b \in BOOLEAN : PushSetOver(b)) /\ UNCHANGED notPush
  \/ (\E b \in BOOLEAN : PushSetDown(b)) /\ UNCHANGED notPush
  \/ (\E b \in BOOLEAN : PushSetEnabled(b)) /\ UNCHANGED notPush

(***************************************************************************)
(* AccessibleNumberSpinner: the keyboard-repeat state machine              *)
(***************************************************************************)

NoKey == "none"

\* KeyboardUtils.isRangeKey: arrow keys, page up/down, home, end.
RangeKeys == {"ArrowUp", "ArrowDown", "ArrowLeft", "ArrowRight",
              "PageUp", "PageDown", "Home", "End"}

\* Key codes delivered to the listener: the range keys and one other key.
Keys == RangeKeys \cup {"KeyA"}

\* options.timerDelay, options.timerInterval (milliseconds).
timerDelay == 400
timerInterval == 100

\* Granularity of the model's clock: both timer periods are multiples of it.
TickMs == timerInterval \div 2

\* _callbackTimer.isRunning(): a timeout or an interval is pending.
TimerIsRunning == timerPhase # "stopped"

\* A timer whose first callback comes after one interval instead of the delay.
TimerFirstWaitNoDelay == timerInterval

\* _callbackTimer.start(): the first callback is due after `delay`.
TimerFirstWait == timerDelay

\* A dispose that leaves a pending timeout or interval in place.
TimerDisposeKeepingPhase(phase) == phase

\* _callbackTimer.dispose(): stops the timer (and drops its callbacks).
TimerDispose(phase) == "stopped"

\* _callbackTimer.addCallback: appends unless already registered.
AddCallback(cbs, cb) ==
  IF \E i \in 1..Len(cbs) : cbs[i] = cb THEN cbs ELSE Append(cbs, cb)

\* _callbackTimer.removeCallback: removes the callback if registered.
RemoveCallback(cbs, cb) ==
  SelectSeq(cbs, LAMBDA c : c # cb)

\* An _emitKeyState that treats page-up / page-down like the arrow keys.
EmitKeyStateWithPageKeys(k, isDown) ==
  IF k \in {"ArrowUp", "ArrowRight", "PageUp"}
  THEN {[emitter |-> "incrementDown", isDown |-> isDown]}
  ELSE IF k \in {"ArrowDown", "ArrowLeft", "PageDown"}
  THEN {[emitter |-> "decrementDown", isDown |-> isDown]}
  ELSE {}

\* _emitKeyState: up/right arrow -> incrementDownEmitter, down/left arrow ->
\* decrementDownEmitter, any other key -> nothing.
EmitKeyState(k, isDown) ==
  IF k \in {"ArrowUp", "ArrowRight"} THEN {[emitter |-> "incrementDown", isDown |-> isDown]}
  ELSE IF k \in {"ArrowDown", "ArrowLeft"} THEN {[emitter |-> "decrementDown", isDown |-> isDown]}
  ELSE {}

\* A keydown guard that forgets the meta key.
KeydownStartsRepeatIgnoringMeta(k, meta) ==
  /\ spinnerEnabled
  /\ k \in RangeKeys
  /\ ~TimerIsRunning

\* A keydown guard that forgets to test whether the timer is already running.
KeydownStartsRepeatNoRunningTest(k, meta) ==
  /\ spinnerEnabled
  /\ k \in RangeKeys
  /\ ~meta

\* keydown: the nested conditions under which the action is performed and the
\* timer started.
KeydownStartsRepeat(k, meta) ==
  /\ spinnerEnabled
  /\ k \in RangeKeys
  /\ ~meta
  /\ ~TimerIsRunning

\* keydown: domEvent.preventDefault() is reached.
KeydownPreventsDefault(k) == spinnerEnabled /\ k \in RangeKeys

\* A keyup test that stops the repeat on the release of any range key.
KeyupStopsRepeatAnyKey(k) ==
  /\ k \in RangeKeys
  /\ runningTimerCallbackEvent # NoKey

\* keyup: the release is that of the key that started the timer.
KeyupStopsRepeat(k) ==
  /\ k \in RangeKeys
  /\ runningTimerCallbackEvent # NoKey
  /\ k = runningTimerCallbackEvent

\* A blur test that never stops the repeat.
BlurStopsRepeatNever == FALSE

\* blur: a callback has been bound (if ( downCallback )).
BlurStopsRepeat == downCallback # NoKey

SpinInit ==
  /\ spinnerEnabled = TRUE
  /\ downCallback = NoKey
  /\ runningTimerCallbackEvent = NoKey
  /\ timerCallbacks = <<>>
  /\ timerPhase = "stopped"
  /\ timerWait = 0
  /\ actionCount = 0
  /\ spinEmitted = {}
  /\ startCount = 0
  /\ sinceStart = 0
  /\ spinLast = [type |-> "none", key |-> NoKey, meta |-> FALSE, prevented |-> FALSE,
                 wasRunning |-> FALSE]
  /\ spinListenerOn = TRUE
  /\ spinDisposed = FALSE

\* accessibleInputListener.keydown
SpinKeydown(k, meta) ==
  /\ actionCount < MaxActions
  /\ spinLast' = [type |-> "keydown", key |-> k, meta |-> meta,
                  prevented |-> spinListenerOn /\ KeydownPreventsDefault(k),
                  wasRunning |-> TimerIsRunning]
  /\ IF spinListenerOn /\ KeydownStartsRepeat(k, meta)
     THEN /\ actionCount' = actionCount + 1
          /\ spinEmitted' = EmitKeyState(k, TRUE)
          /\ downCallback' = k
          /\ runningTimerCallbackEvent' = k
          /\ timerCallbacks' = AddCallback(timerCallbacks, k)
          /\ timerPhase' = IF TimerIsRunning THEN timerPhase ELSE "delay"
          /\ timerWait' = IF TimerIsRunning THEN timerWait ELSE TimerFirstWait
          /\ startCount' = IF TimerIsRunning THEN startCount ELSE actionCount
          /\ sinceStart' = IF TimerIsRunning THEN sinceStart ELSE 0
     ELSE /\ spinEmitted' = {}
          /\ UNCHANGED <<actionCount, downCallback, runningTimerCallbackEvent,
                         timerCallbacks, timerPhase, timerWait, startCount, sinceStart>>
  /\ UNCHANGED <<spinnerEnabled, spinListenerOn, spinDisposed>>

\* accessibleInputListener.keyup
SpinKeyup(k) ==
  /\ spinLast' = [type |-> "keyup", key |-> k, meta |-> FALSE, prevented |-> FALSE,
                  wasRunning |-> TimerIsRunning]
  /\ IF spinListenerOn /\ KeyupStopsRepeat(k)
     THEN /\ spinEmitted' = EmitKeyState(k, FALSE)
          /\ timerPhase' = "stopped"
          /\ timerWait' = 0
          /\ sinceStart' = 0
          /\ timerCallbacks' = RemoveCallback(timerCallbacks, downCallback)
          /\ downCallback' = NoKey
          /\ runningTimerCallbackEvent' = NoKey
     ELSE /\ spinEmitted' = {}
          /\ UNCHANGED <<timerPhase, timerWait, sinceStart, timerCallbacks,
                         downCallback, runningTimerCallbackEvent>>
  /\ UNCHANGED <<spinnerEnabled, actionCount, startCount, spinListenerOn, spinDisposed>>

\* accessibleInputListener.blur
SpinBlur ==
  /\ spinLast' = [type |-> "blur", key |-> NoKey, meta |-> FALSE, prevented |-> FALSE,
                  wasRunning |-> TimerIsRunning]
  /\ IF spinListenerOn /\ BlurStopsRepeat
     THEN /\ spinEmitted' = EmitKeyState(runningTimerCallbackEvent, FALSE)
          /\ timerPhase' = "stopped"
          /\ timerWait' = 0
          /\ sinceStart' = 0
          /\ timerCallbacks' = RemoveCallback(timerCallbacks, downCallback)
     ELSE /\ spinEmitted' = {}
          /\ UNCHANGED <<timerPhase, timerWait, sinceStart, timerCallbacks>>
  /\ UNCHANGED <<spinnerEnabled, actionCount, startCount, downCallback,
                 runningTimerCallbackEvent, spinListenerOn, spinDisposed>>

\* enabledProperty := b (set by the client).
SpinSetEnabled(b) ==
  /\ spinnerEnabled' = b
  /\ spinLast' = [type |-> "enabled", key |-> NoKey, meta |-> FALSE, prevented |-> FALSE,
                  wasRunning |-> TimerIsRunning]
  /\ spinEmitted' = {}
  /\ UNCHANGED <<downCallback, runningTimerCallbackEvent, timerCallbacks, timerPhase,
                 timerWait, actionCount, startCount, sinceStart, spinListenerOn,
                 spinDisposed>>

\* TickMs of time pass. A pending timeout or interval that becomes due runs every
\* registered callback once (each is _accessibleNumberSpinnerHandleKeyDown bound
\* to its keydown event) and the next one is due after timerInterval.
SpinTick ==
  /\ spinLast' = [type |-> "tick", key |-> NoKey, meta |-> FALSE, prevented |-> FALSE,
                  wasRunning |-> TimerIsRunning]
  /\ IF TimerIsRunning
     THEN /\ sinceStart + TickMs <= MaxSinceStart
          /\ sinceStart' = sinceStart + TickMs
          /\ IF timerWait - TickMs <= 0
             THEN /\ actionCount + Len(timerCallbacks) <= MaxActions
                  /\ timerPhase' = "interval"
                  /\ timerWait' = timerInterval
                  /\ actionCount' = actionCount + Len(timerCallbacks)
                  /\ spinEmitted' = UNION {EmitKeyState(timerCallbacks[i], TRUE) :
                                             i \in 1..Len(timerCallbacks)}
             ELSE /\ timerWait' = timerWait - TickMs
                  /\ spinEmitted' = {}
                  /\ UNCHANGED <<timerPhase, actionCount>>
     ELSE /\ spinEmitted' = {}
          /\ UNCHANGED <<sinceStart, timerPhase, timerWait, actionCount>>
  /\ UNCHANGED <<spinnerEnabled, downCallback, runningTimerCallbackEvent,
                 timerCallbacks, startCount, spinListenerOn, spinDisposed>>

\* dispose(): _disposeAccessibleNumberSpinner disposes the timer and removes the
\* input listener; downCallback and runningTimerCallbackEvent are left as they are.
SpinDispose ==
  /\ ~spinDisposed
  /\ spinDisposed' = TRUE
  /\ spinListenerOn' = FALSE
  /\ timerPhase' = TimerDispose(timerPhase)
  /\ timerWait' = IF TimerDispose(timerPhase) = "stopped" THEN 0 ELSE timerWait
  /\ sinceStart' = IF TimerDispose(timerPhase) = "stopped" THEN 0 ELSE sinceStart
  /\ timerCallbacks' = IF TimerDispose(timerPhase) = "stopped" THEN <<>> ELSE timerCallbacks
  /\ spinEmitted' = {}
  /\ spinLast' = [type |-> "dispose", key |-> NoKey, meta |-> FALSE, prevented |-> FALSE,
                  wasRunning |-> TimerIsRunning]
  /\ UNCHANGED <<spinnerEnabled, downCallback, runningTimerCallbackEvent, actionCount,
                 startCount>>

SpinNext ==
  \/ (\E k \in Keys, meta \in BOOLEAN : SpinKeydown(k, meta)) /\ UNCHANGED notSpin
  \/ (\E k \in Keys : SpinKeyup(k)) /\ UNCHANGED notSpin
  \/ SpinBlur /\ UNCHANGED notSpin
  \/ (\E b \in BOOLEAN : SpinSetEnabled(b)) /\ UNCHANGED notSpin
  \/ SpinTick /\ UNCHANGED notSpin
  \/ SpinDispose /\ UNCHANGED notSpin

(***************************************************************************)
(* ComboBox: the open / close / dismiss state machine                      *)
(***************************************************************************)

NoDisplay == 0
Displays == 1..NumDisplays
Items == 1..NumItems

\* Where a pointer-down lands / where a focus trail ends.
Targets == {"button", "listBox", "other"}
Focuses == {"null", "button", "listBox", "other"}

\* The part of the ComboBox that the listBox.visibleProperty listener manages.
ComboCore ==
  [visible |-> listBoxVisible, display |-> display, on |-> dismissListenerOn,
   assertFailed |-> assertFailed, rootedAtShow |-> rootedAtShow]

\* listBox.visibleProperty listener, visible = true: record the rooted display and
\* add the dismiss listener to it (after asserting that no display is recorded).
ShowBranch(c, rooted) ==
  [c EXCEPT !.assertFailed = c.assertFailed \/ (c.display # NoDisplay),
            !.display = rooted,
            !.on = c.on \cup {rooted},
            !.rootedAtShow = rooted]

\* A hide branch that removes the listener from the display the ComboBox is rooted
\* in now instead of the recorded one.
HideBranchFromRooted(c, rooted) ==
  IF c.display # NoDisplay /\ rooted \in c.on
  THEN [c EXCEPT !.on = c.on \ {rooted}, !.display = NoDisplay]
  ELSE c

\* listBox.visibleProperty listener, visible = false: remove the dismiss listener
\* from the recorded display, if it has it, and forget the display.
HideBranch(c, rooted) ==
  IF c.display # NoDisplay /\ c.display \in c.on
  THEN [c EXCEPT !.on = c.on \ {c.display}, !.display = NoDisplay]
  ELSE c

\* A visibleProperty that notifies its listener on every set, changed or not.
SetVisibleNotifyingAlways(c, v, rooted) ==
  IF v THEN ShowBranch([c EXCEPT !.visible = TRUE], rooted)
  ELSE HideBranch([c EXCEPT !.visible = FALSE], rooted)

\* listBox.visibleProperty.value = v: listeners are notified only when the value
\* changes.
SetVisible(c, v, rooted) ==
  IF c.visible = v THEN c
  ELSE IF v THEN ShowBranch([c EXCEPT !.visible = TRUE], rooted)
  ELSE HideBranch([c EXCEPT !.visible = FALSE], rooted)

\* showListBox / hideListBox
ShowListBoxCore(c, rooted) == SetVisible(c, TRUE, rooted)

\* A hideListBox that negates the visibility instead of clearing it.
HideListBoxToggling(c, rooted) == SetVisible(c, ~c.visible, rooted)

HideListBoxCore(c, rooted) == SetVisible(c, FALSE, rooted)

\* A dismiss test that hides the list on any pointer-down not on the list box.
DismissesOnDownIgnoringButton(target) == target # "listBox"

\* A dismiss test that hides the list on any pointer-down not on the button.
DismissesOnDownIgnoringListBox(target) == target # "button"

\* clickToDismissListener.down: the event's trail contains neither the button nor
\* the list box.
DismissesOnDown(target) == ~(target = "button" \/ target = "listBox")

\* clickToDismissListener.down; `lucky` is dotRandom.nextDouble() < 0.005.
ClickToDismiss(c, target, lucky, rooted) ==
  IF (~fuzzEnabled \/ lucky) /\ DismissesOnDown(target)
  THEN HideListBoxCore(c, rooted)
  ELSE c

\* A focus listener that hides the list for any non-null focus.
DismissWithFocusAnyFocus(c, focus, rooted) ==
  IF focus # "null" THEN HideListBoxCore(c, rooted) ELSE c

\* A focus listener whose containsNode test is inverted.
DismissWithFocusInverted(c, focus, rooted) ==
  IF focus # "null" /\ focus = "listBox" THEN HideListBoxCore(c, rooted) ELSE c

\* A focus listener that never hides the list.
DismissWithFocusNever(c, focus, rooted) == c

\* dismissWithFocusListener
DismissWithFocus(c, focus, rooted) ==
  IF focus # "null" /\ focus # "listBox" THEN HideListBoxCore(c, rooted) ELSE c

\* The button's listener: toggle the list box.
ButtonListener(c, rooted) == SetVisible(c, ~c.visible, rooted)

\* A displayOnly listener that leaves the list box as it is.
DisplayOnlyListenerKeepingList(c, b, rooted) == [core |-> c, pickable |-> ~b]

\* displayOnlyProperty listener: hideListBox, then pickable = !displayOnly.
DisplayOnlyListener(c, b, rooted) ==
  [core |-> HideListBoxCore(c, rooted), pickable |-> ~b]

\* A disposeComboBox that leaves the dismiss listener on its display.
DisposeComboBoxKeepingListener(c) == c

\* disposeComboBox: remove the dismiss listener from the recorded display, if it
\* has it; the recorded display is kept.
DisposeComboBox(c) ==
  IF c.display # NoDisplay /\ c.display \in c.on
  THEN [c EXCEPT !.on = c.on \ {c.display}]
  ELSE c

ComboAssign(c) ==
  /\ listBoxVisible' = c.visible
  /\ display' = c.display
  /\ dismissListenerOn' = c.on
  /\ assertFailed' = c.assertFailed
  /\ rootedAtShow' = c.rootedAtShow

ComboOp(op, target, delivered) ==
  [op |-> op, target |-> target, delivered |-> delivered, wasVisible |-> listBoxVisible]

ComboRecord(op, target, delivered) ==
  /\ comboLast' = ComboOp(op, target, delivered)
  /\ comboPrev' = comboLast

\* The state after the constructor: the visibleProperty and displayOnlyProperty
\* links have run once with false.
ComboInit ==
  /\ listBoxVisible = FALSE
  /\ display = NoDisplay
  /\ dismissListenerOn = {}
  /\ assertFailed = FALSE
  /\ rootedDisplay = 1
  /\ displayOnly = FALSE
  /\ pickable = TRUE
  /\ fuzzEnabled \in BOOLEAN
  /\ pdomFocus = "null"
  /\ focusListenerLinked = TRUE
  /\ comboValue = 1
  /\ comboDisposed = FALSE
  /\ rootedAtShow = NoDisplay
  /\ comboLast = [op |-> "none", target |-> "other", delivered |-> FALSE, wasVisible |-> FALSE]
  /\ comboPrev = [op |-> "none", target |-> "other", delivered |-> FALSE, wasVisible |-> FALSE]

\* showListBox()
ShowListBox ==
  /\ ~comboDisposed
  /\ ComboAssign(ShowListBoxCore(ComboCore, rootedDisplay))
  /\ ComboRecord("show", "other", FALSE)
  /\ UNCHANGED <<rootedDisplay, displayOnly, pickable, fuzzEnabled, pdomFocus,
                 focusListenerLinked, comboValue, comboDisposed>>

\* hideListBox()
HideListBox ==
  /\ ~comboDisposed
  /\ ComboAssign(HideListBoxCore(ComboCore, rootedDisplay))
  /\ ComboRecord("hide", "other", FALSE)
  /\ UNCHANGED <<rootedDisplay, displayOnly, pickable, fuzzEnabled, pdomFocus,
                 focusListenerLinked, comboValue, comboDisposed>>

\* The button fires: its listener toggles the list box and, when the list is now
\* visible, focuses it; the focus change reaches dismissWithFocusListener.
ButtonFire ==
  /\ ~comboDisposed
  /\ LET c1 == ButtonListener(ComboCore, rootedDisplay)
         f  == IF c1.visible THEN "listBox" ELSE pdomFocus
         c2 == IF f # pdomFocus /\ focusListenerLinked
               THEN DismissWithFocus(c1, f, rootedDisplay) ELSE c1
     IN /\ ComboAssign(c2)
        /\ pdomFocus' = f
  /\ ComboRecord("fire", "button", FALSE)
  /\ UNCHANGED <<rootedDisplay, displayOnly, pickable, fuzzEnabled,
                 focusListenerLinked, comboValue, comboDisposed>>

\* A pointer-down on display d whose trail ends at `target`. The button and the
\* list box can be hit only in the display the ComboBox is rooted in, the button
\* only while pickable, the list box only while visible. The display dispatches
\* the event to clickToDismissListener if it has it.
PointerDown(d, target, lucky) ==
  /\ target = "button" => (d = rootedDisplay /\ pickable /\ ~comboDisposed)
  /\ target = "listBox" => (d = rootedDisplay /\ listBoxVisible /\ ~comboDisposed)
  /\ lucky => fuzzEnabled
  /\ ComboAssign(IF d \in dismissListenerOn
                 THEN ClickToDismiss(ComboCore, target, lucky, rootedDisplay)
                 ELSE ComboCore)
  /\ ComboRecord("down", target, d \in dismissListenerOn)
  /\ UNCHANGED <<rootedDisplay, displayOnly, pickable, fuzzEnabled, pdomFocus,
                 focusListenerLinked, comboValue, comboDisposed>>

\* FocusManager.pdomFocusProperty := f; linked listeners are notified on change.
\* Focus can be in the list box only while it is visible.
FocusChange(f) ==
  /\ f = "listBox" => (listBoxVisible /\ ~comboDisposed)
  /\ pdomFocus' = f
  /\ ComboAssign(IF f # pdomFocus /\ focusListenerLinked
                 THEN DismissWithFocus(ComboCore, f, rootedDisplay)
                 ELSE ComboCore)
  /\ ComboRecord("focus", f, f # pdomFocus /\ focusListenerLinked)
  /\ UNCHANGED <<rootedDisplay, displayOnly, pickable, fuzzEnabled,
                 focusListenerLinked, comboValue, comboDisposed>>

\* displayOnlyProperty := b; its listener runs on change.
SetDisplayOnly(b) ==
  /\ ~comboDisposed
  /\ displayOnly' = b
  /\ IF b # displayOnly
     THEN LET r == DisplayOnlyListener(ComboCore, b, rootedDisplay)
          IN /\ ComboAssign(r.core)
             /\ pickable' = r.pickable
     ELSE /\ ComboAssign(ComboCore)
          /\ UNCHANGED pickable
  /\ ComboRecord("displayOnly", "other", b # displayOnly)
  /\ UNCHANGED <<rootedDisplay, fuzzEnabled, pdomFocus, focusListenerLinked,
                 comboValue, comboDisposed>>

\* The scene the ComboBox is in moves to another display (sun#14).
RootedDisplayChange(d) ==
  /\ d # rootedDisplay
  /\ rootedDisplay' = d
  /\ ComboRecord("rooted", "other", FALSE)
  /\ UNCHANGED <<listBoxVisible, display, dismissListenerOn, assertFailed, rootedAtShow,
                 displayOnly, pickable, fuzzEnabled, pdomFocus, focusListenerLinked,
                 comboValue, comboDisposed>>

\* An item of the open list box is selected: the list box calls the hide callback
\* it was given (hideListBox) and sets the value cell.
ListItemFired(v) ==
  /\ ~comboDisposed
  /\ listBoxVisible
  /\ ComboAssign(HideListBoxCore(ComboCore, rootedDisplay))
  /\ comboValue' = v
  /\ ComboRecord("item", "listBox", FALSE)
  /\ UNCHANGED <<rootedDisplay, displayOnly, pickable, fuzzEnabled, pdomFocus,
                 focusListenerLinked, comboDisposed>>

\* dispose(): disposeComboBox removes the dismiss listener from the recorded
\* display, if it has it, and unlinks the focus listener.
ComboDispose ==
  /\ ~comboDisposed
  /\ comboDisposed' = TRUE
  /\ ComboAssign(DisposeComboBox(ComboCore))
  /\ focusListenerLinked' = FALSE
  /\ ComboRecord("dispose", "other", FALSE)
  /\ UNCHANGED <<rootedDisplay, displayOnly, pickable, fuzzEnabled, pdomFocus,
                 comboValue>>

ComboNext ==
  \/ ShowListBox /\ UNCHANGED notCombo
  \/ HideListBox /\ UNCHANGED notCombo
  \/ ButtonFire /\ UNCHANGED notCombo
  \/ (\E d \in Displays, t \in Targets, lucky \in BOOLEAN : PointerDown(d, t, lucky))
       /\ UNCHANGED notCombo
  \/ (\E f \in Focuses : FocusChange(f)) /\ UNCHANGED notCombo
  \/ (\E b \in BOOLEAN : SetDisplayOnly(b)) /\ UNCHANGED notCombo
  \/ (\E d \in Displays : RootedDisplayChange(d)) /\ UNCHANGED notCombo
  \/ (\E v \in Items : ListItemFired(v)) /\ UNCHANGED notCombo
  \/ ComboDispose /\ UNCHANGED notCombo

(***************************************************************************)
(* ComboBox, 2018 version: showList / hideList / hideListFromClick         *)
(***************************************************************************)

LegacyCore ==
  [visible |-> listNodeVisible, display |-> legacyDisplay, on |-> legacyListenerOn,
   enableClick |-> enableClickToDismissListener]

\* showList(): nothing if the list is already visible.
ShowList(c, rooted) ==
  IF c.visible THEN c
  ELSE [c EXCEPT !.visible = TRUE,
                 !.enableClick = FALSE,
                 !.display = rooted,
                 !.on = c.on \cup {rooted}]

\* A hideList that hides the list node but leaves the dismiss listener in place.
HideListKeepingListener(c) == [c EXCEPT !.visible = FALSE]

\* hideList(): remove the dismiss listener from the recorded display, if it has
\* it, and hide the list node.
HideList(c) ==
  [c EXCEPT !.on = IF c.display # NoDisplay /\ c.display \in c.on
                   THEN c.on \ {c.display} ELSE c.on,
            !.visible = FALSE]

\* hideListFromClick(): the first 'down' after showList only arms the listener.
HideListFromClick(c) ==
  IF c.enableClick THEN HideList(c) ELSE [c EXCEPT !.enableClick = TRUE]

\* The display dispatches a 'down' to its input listeners after the trail's nodes.
DisplayDown(c, d) == IF d \in c.on THEN HideListFromClick(c) ELSE c

LegacyAssign(c) ==
  /\ listNodeVisible' = c.visible
  /\ legacyDisplay' = c.display
  /\ legacyListenerOn' = c.on
  /\ enableClickToDismissListener' = c.enableClick

LegacyRecord(op, item) ==
  /\ legacyLast' = [op |-> op, item |-> item, wasVisible |-> listNodeVisible]
  /\ legacyPrev' = legacyLast
  /\ legacyDelivered' = FALSE

\* A 'down' on display d, dispatched when the listeners are those of core c.
LegacyRecordDown(op, c, d) ==
  /\ legacyLast' = [op |-> op, item |-> 0, wasVisible |-> listNodeVisible]
  /\ legacyPrev' = legacyLast
  /\ legacyDelivered' = (d \in c.on)

LegacyInit ==
  /\ listNodeVisible = FALSE
  /\ legacyDisplay = NoDisplay
  /\ legacyListenerOn = {}
  /\ enableClickToDismissListener = FALSE
  /\ fromA11yEnterKey = FALSE
  /\ legacyRooted = 1
  /\ legacyValue = 1
  /\ legacyLast = [op |-> "none", item |-> 0, wasVisible |-> FALSE]
  /\ legacyPrev = [op |-> "none", item |-> 0, wasVisible |-> FALSE]
  /\ legacyDisposed = FALSE
  /\ legacyItemsDisposed = {}
  /\ legacyDelivered = FALSE

\* 'down' on the button: the button's listener calls showList, then the display's
\* listeners see the same event.
LegacyButtonDown ==
  /\ ~legacyDisposed /\ UNCHANGED <<legacyDisposed, legacyItemsDisposed>>
  /\ LegacyAssign(DisplayDown(ShowList(LegacyCore, legacyRooted), legacyRooted))
  /\ LegacyRecordDown("buttonDown", ShowList(LegacyCore, legacyRooted), legacyRooted)
  /\ UNCHANGED <<fromA11yEnterKey, legacyRooted, legacyValue>>

\* A 'click' handler without the enter-key guard.
LegacyButtonClickIgnoringGuard ==
  /\ UNCHANGED <<legacyDisposed, legacyItemsDisposed>>
  /\ IF listNodeVisible
     THEN LegacyAssign(HideList(LegacyCore))
     ELSE LegacyAssign(ShowList(LegacyCore, legacyRooted))
  /\ LegacyRecord("buttonClick", 0)
  /\ UNCHANGED <<fromA11yEnterKey, legacyRooted, legacyValue>>

\* 'click' from assistive technology on the button (button.a11yListener.click).
LegacyButtonClick ==
  /\ ~legacyDisposed /\ UNCHANGED <<legacyDisposed, legacyItemsDisposed>>
  /\ IF listNodeVisible
     THEN LegacyAssign(HideList(LegacyCore)) /\ UNCHANGED fromA11yEnterKey
     ELSE IF ~fromA11yEnterKey
     THEN LegacyAssign(ShowList(LegacyCore, legacyRooted)) /\ UNCHANGED fromA11yEnterKey
     ELSE LegacyAssign(LegacyCore) /\ fromA11yEnterKey' = FALSE
  /\ LegacyRecord("buttonClick", 0)
  /\ UNCHANGED <<legacyRooted, legacyValue>>

\* 'up' on an item of the visible list: itemListener.up emits firedEmitter, whose
\* listener hides the list and then sets the property. ('down' on an item is
\* aborted before it reaches the display.)
LegacyItemUp(v) ==
  /\ UNCHANGED <<legacyDisposed, legacyItemsDisposed>>
  /\ listNodeVisible
  /\ LegacyAssign(HideList(LegacyCore))
  /\ legacyValue' = v
  /\ LegacyRecord("itemUp", v)
  /\ UNCHANGED <<fromA11yEnterKey, legacyRooted>>

\* keydown of enter or space on a focused item (listItemNode.a11yClickListener).
LegacyItemKeydown(v, enter) ==
  /\ UNCHANGED <<legacyDisposed, legacyItemsDisposed>>
  /\ listNodeVisible
  /\ fromA11yEnterKey' = enter
  /\ legacyValue' = v
  /\ LegacyAssign(HideList(LegacyCore))
  /\ LegacyRecord("itemKey", v)
  /\ UNCHANGED legacyRooted

\* keydown of escape or tab on the list, or of escape on the button while the list
\* is visible.
LegacyEscape ==
  /\ UNCHANGED <<legacyDisposed, legacyItemsDisposed>>
  /\ listNodeVisible
  /\ LegacyAssign(HideList(LegacyCore))
  /\ LegacyRecord("escape", 0)
  /\ UNCHANGED <<fromA11yEnterKey, legacyRooted, legacyValue>>

\* 'down' anywhere else on display d.
LegacyOutsideDown(d) ==
  /\ UNCHANGED <<legacyDisposed, legacyItemsDisposed>>
  /\ LegacyAssign(DisplayDown(LegacyCore, d))
  /\ LegacyRecordDown("outsideDown", LegacyCore, d)
  /\ UNCHANGED <<fromA11yEnterKey, legacyRooted, legacyValue>>

\* The scene moves to another display.
LegacyRootedChange(d) ==
  /\ UNCHANGED <<legacyDisposed, legacyItemsDisposed>>
  /\ d # legacyRooted
  /\ legacyRooted' = d
  /\ LegacyRecord("rooted", 0)
  /\ UNCHANGED <<listNodeVisible, legacyDisplay, legacyListenerOn,
                 enableClickToDismissListener, fromA11yEnterKey, legacyValue>>

\* Number( listItemNodes ): the array is converted through its string form, which
\* gives 0 for no element and NaN for list item nodes.
ArrayIsNaN(n) == n > 0

\* i < this.listItemNodes, the test of the dispose loop: false against NaN, and
\* i < 0 against the empty array.
LoopTest(i, n) == ~ArrayIsNaN(n) /\ i < 0

\* The (0-based) indices for which the body of the dispose loop runs: the loop
\* ends at the first i that fails the test.
LoopIndices(n) == {i \in 0..n : \A j \in 0..i : LoopTest(j, n)}

\* disposeComboBox: the loop over the list item nodes, then button.dispose().
LegacyDispose ==
  /\ ~legacyDisposed
  /\ legacyDisposed' = TRUE
  /\ legacyItemsDisposed' = {i + 1 : i \in LoopIndices(NumItems)} \cap Items
  /\ LegacyRecord("dispose", 0)
  /\ UNCHANGED <<listNodeVisible, legacyDisplay, legacyListenerOn,
                 enableClickToDismissListener, fromA11yEnterKey, legacyRooted,
                 legacyValue>>

LegacyNext ==
  \/ LegacyButtonDown /\ UNCHANGED notLegacy
  \/ LegacyButtonClick /\ UNCHANGED notLegacy
  \/ (\E v \in Items : LegacyItemUp(v)) /\ UNCHANGED notLegacy
  \/ (\E v \in Items, enter \in BOOLEAN : LegacyItemKeydown(v, enter)) /\ UNCHANGED notLegacy
  \/ LegacyEscape /\ UNCHANGED notLegacy
  \/ (\E d \in Displays : LegacyOutsideDown(d)) /\ UNCHANGED notLegacy
  \/ (\E d \in Displays : LegacyRootedChange(d)) /\ UNCHANGED notLegacy
  \/ LegacyDispose /\ UNCHANGED notLegacy

(***************************************************************************)
(* MomentaryButtonModel: the value cell is on while the button is held     *)
(***************************************************************************)

\* A listener on 'down' that turns the value on and never reverts it.
MomentaryDownListenerNeverReverts(dn, en, val) ==
  IF dn /\ en THEN "valueOn" ELSE val

\* Listener on 'down': on when pressed (if enabled), off on release or cancel.
MomentaryDownListener(dn, en, val) ==
  IF dn THEN (IF en THEN "valueOn" ELSE val) ELSE "valueOff"

\* Listener on 'enabled': off when disabled.
MomentaryEnabledListener(en, val) ==
  IF ~en THEN "valueOff" ELSE val

\* Setting 'down' notifies its listener only when the flag changes.
MomentarySetDown(dn, en, val) ==
  IF dn # momentaryDown THEN MomentaryDownListener(dn, en, val) ELSE val

MomentaryRecord(op) ==
  momentaryLast' = [op |-> op, wasOn |-> momentaryValue = "valueOn",
                    wasOver |-> momentaryOver]

MomentaryInit ==
  /\ momentaryOver = FALSE
  /\ momentaryDown = FALSE
  /\ momentaryEnabled = TRUE
  /\ momentaryFocused = FALSE
  /\ momentaryValue = "valueOff"
  /\ momentaryPresses = 0
  /\ momentaryLast = [op |-> "none", wasOn |-> FALSE, wasOver |-> FALSE]

MomentaryPointerEnter ==
  /\ ~momentaryOver
  /\ momentaryOver' = TRUE
  /\ MomentaryRecord("pointerEnter")
  /\ UNCHANGED <<momentaryDown, momentaryEnabled, momentaryFocused, momentaryValue,
                 momentaryPresses>>

\* Leaving the hit area while down preserves 'down' until release.
MomentaryPointerExit ==
  /\ momentaryOver
  /\ momentaryOver' = FALSE
  /\ MomentaryRecord("pointerExit")
  /\ UNCHANGED <<momentaryDown, momentaryEnabled, momentaryFocused, momentaryValue,
                 momentaryPresses>>

\* A press lands on the button; a disabled button ignores it.
MomentaryPointerDown ==
  /\ momentaryOver /\ ~momentaryDown
  /\ momentaryPresses < MaxPresses
  /\ IF momentaryEnabled
     THEN /\ momentaryDown' = TRUE
          /\ momentaryValue' = MomentarySetDown(TRUE, momentaryEnabled, momentaryValue)
          /\ momentaryPresses' = momentaryPresses + 1
     ELSE UNCHANGED <<momentaryDown, momentaryValue, momentaryPresses>>
  /\ MomentaryRecord("pointerDown")
  /\ UNCHANGED <<momentaryOver, momentaryEnabled, momentaryFocused>>

MomentaryPointerUp ==
  /\ momentaryDown
  /\ momentaryDown' = FALSE
  /\ momentaryValue' = MomentarySetDown(FALSE, momentaryEnabled, momentaryValue)
  /\ MomentaryRecord("pointerUp")
  /\ UNCHANGED <<momentaryOver, momentaryEnabled, momentaryFocused, momentaryPresses>>

MomentaryPointerCancel ==
  /\ momentaryDown' = FALSE
  /\ momentaryValue' = MomentarySetDown(FALSE, momentaryEnabled, momentaryValue)
  /\ MomentaryRecord("pointerCancel")
  /\ UNCHANGED <<momentaryOver, momentaryEnabled, momentaryFocused, momentaryPresses>>

MomentaryFocusIn ==
  /\ ~momentaryFocused
  /\ momentaryFocused' = TRUE
  /\ MomentaryRecord("focusIn")
  /\ UNCHANGED <<momentaryOver, momentaryDown, momentaryEnabled, momentaryValue,
                 momentaryPresses>>

\* Blur ends the press.
MomentaryFocusOut ==
  /\ momentaryFocused
  /\ momentaryFocused' = FALSE
  /\ momentaryDown' = FALSE
  /\ momentaryValue' = MomentarySetDown(FALSE, momentaryEnabled, momentaryValue)
  /\ MomentaryRecord("focusOut")
  /\ UNCHANGED <<momentaryOver, momentaryEnabled, momentaryPresses>>

\* Disabling ends the press; the listener on 'enabled' runs when the flag changes.
MomentarySetEnabled(b) ==
  /\ b # momentaryEnabled
  /\ momentaryEnabled' = b
  /\ momentaryDown' = IF b THEN momentaryDown ELSE FALSE
  /\ momentaryValue' =
       MomentaryEnabledListener(b,
         MomentarySetDown(IF b THEN momentaryDown ELSE FALSE, b, momentaryValue))
  /\ MomentaryRecord(IF b THEN "enable" ELSE "disable")
  /\ UNCHANGED <<momentaryOver, momentaryFocused, momentaryPresses>>

MomentaryNext ==
  \/ MomentaryPointerEnter /\ UNCHANGED notMomentary
  \/ MomentaryPointerExit /\ UNCHANGED notMomentary
  \/ MomentaryPointerDown /\ UNCHANGED notMomentary
  \/ MomentaryPointerUp /\ UNCHANGED notMomentary
  \/ MomentaryPointerCancel /\ UNCHANGED notMomentary
  \/ MomentaryFocusIn /\ UNCHANGED notMomentary
  \/ MomentaryFocusOut /\ UNCHANGED notMomentary
  \/ (\E b \in BOOLEAN : MomentarySetEnabled(b)) /\ UNCHANGED notMomentary

(***************************************************************************)
(* Radio button group: N buttons with distinct values on one Property      *)
(***************************************************************************)

NoRadioValue == 0
Radios == 1..NumRadios

\* The value a button was constructed with: distinct per button.
RadioValue(i) == i

\* An interaction state whose OVER case forgets the selection.
RadioInteractionStateOverWhenSelected(focused, ov, looksOver, looksPressed, propertyValue, value) ==
  IF looksOver /\ ~looksPressed THEN "OVER"
  ELSE IF (ov \/ focused) /\ looksPressed THEN "PRESSED"
  ELSE IF propertyValue = value THEN "SELECTED"
  ELSE "DESELECTED"

\* A derivation whose OVER clause reads over instead of looksOver.
RadioInteractionStateOverFromPointer(focused, ov, looksOver, looksPressed, propertyValue, value) ==
  IF ov /\ ~(looksPressed \/ propertyValue = value) THEN "OVER"
  ELSE IF (ov \/ focused) /\ looksPressed THEN "PRESSED"
  ELSE IF propertyValue = value THEN "SELECTED"
  ELSE "DESELECTED"

\* RadioButtonInteractionStateProperty's derivation.
RadioButtonInteractionState(focused, ov, looksOver, looksPressed, propertyValue, value) ==
  IF looksOver /\ ~(looksPressed \/ propertyValue = value) THEN "OVER"
  ELSE IF (ov \/ focused) /\ looksPressed THEN "PRESSED"
  ELSE IF propertyValue = value THEN "SELECTED"
  ELSE "DESELECTED"

\* A syncWithModel that shows the selected node for any declared value.
SyncWithModelAnyValue(newValue, value) == newValue # NoRadioValue

\* syncWithModel: selectedNode.visible = ( newValue === value ).
SyncWithModel(newValue, value) == newValue = value

\* deselectedNode.visible = !selectedNode.visible, as syncWithModel leaves it.
DeselectedNodeVisible(shown, i) == ~shown[i]

\* A property.set that reaches no syncWithModel, as if the link were missing.
RadioPropertySetWithoutSync(v) ==
  /\ radioProperty' = v
  /\ selectedNodeVisible' = selectedNodeVisible

\* property.set( v ): every button's syncWithModel runs when the value changes.
RadioPropertySet(v) ==
  /\ radioProperty' = v
  /\ selectedNodeVisible' =
       IF v # radioProperty
       THEN [i \in Radios |-> SyncWithModel(v, RadioValue(i))]
       ELSE selectedNodeVisible

\* The button model's flags as the interaction state sees them: leaving the hit
\* area while down clears looksPressed and keeps down.
RadioLooksPressed(i) == radioDown[i] /\ radioOver[i]

\* looksOver of the button model: over and enabled.
RadioLooksOver(i) == radioOver[i] /\ radioEnabled

RadioState(i) ==
  RadioButtonInteractionState(radioFocus = i, radioOver[i], RadioLooksOver(i),
                              RadioLooksPressed(i), radioProperty, RadioValue(i))

\* calls of fire() made by one activation: the fire listener's, the change
\* listener's, or both when both events are delivered.
RadioFireCallsOf(fired, changed) ==
  (IF fired THEN 1 ELSE 0) + (IF changed THEN 1 ELSE 0)

RadioRecord(op, i, both) == radioLast' = [op |-> op, button |-> i, both |-> both]

RadioInit ==
  /\ radioProperty = RadioValue(1)
  /\ selectedNodeVisible = [i \in Radios |-> SyncWithModel(RadioValue(1), RadioValue(i))]
  /\ radioOver = [i \in Radios |-> FALSE]
  /\ radioDown = [i \in Radios |-> FALSE]
  /\ radioFocus = NoRadioValue
  /\ radioActivations = 0
  /\ radioFireCalls = 0
  /\ radioLast = [op |-> "none", button |-> 0, both |-> FALSE]
  /\ radioEnabled = TRUE

RadioPointerEnter(i) ==
  /\ UNCHANGED radioEnabled
  /\ ~radioOver[i]
  /\ radioOver' = [radioOver EXCEPT ![i] = TRUE]
  /\ RadioRecord("pointerEnter", i, FALSE)
  /\ UNCHANGED <<radioProperty, selectedNodeVisible, radioDown, radioFocus,
                 radioActivations, radioFireCalls>>

RadioPointerExit(i) ==
  /\ UNCHANGED radioEnabled
  /\ radioOver[i]
  /\ radioOver' = [radioOver EXCEPT ![i] = FALSE]
  /\ RadioRecord("pointerExit", i, FALSE)
  /\ UNCHANGED <<radioProperty, selectedNodeVisible, radioDown, radioFocus,
                 radioActivations, radioFireCalls>>

RadioPointerDown(i) ==
  /\ radioEnabled /\ UNCHANGED radioEnabled
  /\ radioOver[i] /\ ~radioDown[i]
  /\ radioDown' = [radioDown EXCEPT ![i] = TRUE]
  /\ RadioRecord("pointerDown", i, FALSE)
  /\ UNCHANGED <<radioProperty, selectedNodeVisible, radioOver, radioFocus,
                 radioActivations, radioFireCalls>>

\* Release: over the button the fire listener calls fire(); the same activation
\* may also arrive as a 'change' from the PDOM, whose listener calls fire() too.
RadioPointerUp(i, alsoChange) ==
  /\ radioEnabled /\ UNCHANGED radioEnabled
  /\ radioDown[i]
  /\ radioActivations < MaxActivations
  /\ radioDown' = [radioDown EXCEPT ![i] = FALSE]
  /\ IF radioOver[i]
     THEN /\ RadioPropertySet(RadioValue(i))
          /\ radioFireCalls' = radioFireCalls + RadioFireCallsOf(TRUE, alsoChange)
          /\ radioActivations' = radioActivations + 1
          /\ RadioRecord("activate", i, alsoChange)
     ELSE /\ UNCHANGED <<radioProperty, selectedNodeVisible, radioFireCalls,
                         radioActivations>>
          /\ RadioRecord("releaseOutside", i, FALSE)
  /\ UNCHANGED <<radioOver, radioFocus>>

\* Selection from the keyboard or assistive technology: 'change' on the button.
RadioChange(i) ==
  /\ radioEnabled /\ UNCHANGED radioEnabled
  /\ radioActivations < MaxActivations
  /\ RadioPropertySet(RadioValue(i))
  /\ radioFocus' = i
  /\ radioFireCalls' = radioFireCalls + RadioFireCallsOf(FALSE, TRUE)
  /\ radioActivations' = radioActivations + 1
  /\ RadioRecord("activate", i, FALSE)
  /\ UNCHANGED <<radioOver, radioDown>>

RadioFocusChange(f) ==
  /\ UNCHANGED radioEnabled
  /\ f # radioFocus
  /\ radioFocus' = f
  /\ RadioRecord("focus", f, FALSE)
  /\ UNCHANGED <<radioProperty, selectedNodeVisible, radioOver, radioDown,
                 radioActivations, radioFireCalls>>

\* Other code sets the shared Property, possibly to a value no button declares.
RadioSetProperty(v) ==
  /\ UNCHANGED radioEnabled
  /\ v # radioProperty
  /\ RadioPropertySet(v)
  /\ RadioRecord("set", v, FALSE)
  /\ UNCHANGED <<radioOver, radioDown, radioFocus, radioActivations, radioFireCalls>>

\* enabled of the buttons is set; disabling interrupts a press in progress.
RadioSetEnabled(b) ==
  /\ b # radioEnabled
  /\ radioEnabled' = b
  /\ radioDown' = IF b THEN radioDown ELSE [i \in Radios |-> FALSE]
  /\ RadioRecord(IF b THEN "enable" ELSE "disable", 0, FALSE)
  /\ UNCHANGED <<radioProperty, selectedNodeVisible, radioOver, radioFocus,
                 radioActivations, radioFireCalls>>

RadioNext ==
  \/ (\E i \in Radios : RadioPointerEnter(i)) /\ UNCHANGED notRadio
  \/ (\E i \in Radios : RadioPointerExit(i)) /\ UNCHANGED notRadio
  \/ (\E i \in Radios : RadioPointerDown(i)) /\ UNCHANGED notRadio
  \/ (\E i \in Radios, alsoChange \in BOOLEAN : RadioPointerUp(i, alsoChange))
       /\ UNCHANGED notRadio
  \/ (\E i \in Radios : RadioChange(i)) /\ UNCHANGED notRadio
  \/ (\E f \in Radios \cup {NoRadioValue} : RadioFocusChange(f)) /\ UNCHANGED notRadio
  \/ (\E v \in Radios \cup {NoRadioValue} : RadioSetProperty(v)) /\ UNCHANGED notRadio
  \/ (\E b \in BOOLEAN : RadioSetEnabled(b)) /\ UNCHANGED notRadio

(***************************************************************************)
(* ToggleButton: 'up' listener and peer 'click' both toggle the Property   *)
(***************************************************************************)

\* booleanProperty.value = !booleanProperty.value, once per listener that runs.
ToggleTimes(b, n) == IF n % 2 = 0 THEN b ELSE ~b

ToggleListenersRun(up, click) == (IF up THEN 1 ELSE 0) + (IF click THEN 1 ELSE 0)

\* booleanProperty.link: the peer's 'checked' attribute follows the value.
ToggleAssign(b) ==
  /\ toggleValue' = b
  /\ togglePeerChecked' = b

ToggleInit ==
  /\ toggleValue = FALSE
  /\ togglePeerChecked = FALSE
  /\ toggleActivations = 0
  /\ toggleLast = [op |-> "none", both |-> FALSE, before |-> FALSE]

\* One activation of the button, delivered as a pointer 'up', as a peer 'click',
\* or as both.
ToggleActivate(up, click) ==
  /\ up \/ click
  /\ toggleActivations < MaxActivations
  /\ ToggleAssign(ToggleTimes(toggleValue, ToggleListenersRun(up, click)))
  /\ toggleActivations' = toggleActivations + 1
  /\ toggleLast' = [op |-> "activate", both |-> up /\ click, before |-> toggleValue]

\* Other code sets the Property.
ToggleSetProperty(b) ==
  /\ b # toggleValue
  /\ ToggleAssign(b)
  /\ toggleLast' = [op |-> "set", both |-> FALSE, before |-> toggleValue]
  /\ UNCHANGED toggleActivations

ToggleNext ==
  \/ (\E up \in BOOLEAN, click \in BOOLEAN : ToggleActivate(up, click))
       /\ UNCHANGED notToggle
  \/ (\E b \in BOOLEAN : ToggleSetProperty(b)) /\ UNCHANGED notToggle

(***************************************************************************)
(* Several ComboBox instances sharing one display                          *)
(***************************************************************************)

Instances == 1..NumComboBoxes

\* The display every instance is rooted in.
SharedDisplay == 1

NoFocus == <<"null", 0>>

\* Where a pointer-down can land, or a focus trail can end: nowhere (focus only),
\* outside every ComboBox, or on the button or the list box of one instance.
PairPlaces ==
  {NoFocus, <<"other", 0>>} \cup ({"button", "listBox"} \X Instances)

\* What instance k's listeners see of a place: its own button or list box, or
\* something its trail tests do not contain.
RelativeTo(k, place) ==
  IF place[1] = "null" THEN "null"
  ELSE IF place[2] = k THEN place[1]
  ELSE "other"

\* A node that becomes invisible loses focus.
PairBlur(cores, focus) ==
  IF focus[1] = "listBox" /\ ~cores[focus[2]].visible THEN NoFocus ELSE focus

\* pdomFocusProperty notifies every instance's dismissWithFocusListener.
PairNotifyFocus(cores, focus) ==
  [k \in Instances |-> DismissWithFocus(cores[k], RelativeTo(k, focus), SharedDisplay)]

PairOpen == {k \in Instances : pairCore[k].visible}

PairRecord(op, i) == pairLast' = [op |-> op, instance |-> i, wasOpen |-> PairOpen]

PairInit ==
  /\ pairCore = [k \in Instances |->
                  [visible |-> FALSE, display |-> NoDisplay, on |-> {},
                   assertFailed |-> FALSE, rootedAtShow |-> NoDisplay]]
  /\ pairFocus = NoFocus
  /\ pairLast = [op |-> "none", instance |-> 0, wasOpen |-> {}]

\* showListBox() of instance i
PairShowListBox(i) ==
  /\ pairCore' = [pairCore EXCEPT ![i] = ShowListBoxCore(@, SharedDisplay)]
  /\ PairRecord("show", i)
  /\ UNCHANGED pairFocus

\* hideListBox() of instance i
PairHideListBox(i) ==
  /\ pairCore' = [pairCore EXCEPT ![i] = HideListBoxCore(@, SharedDisplay)]
  /\ pairFocus' = PairBlur(pairCore', pairFocus)
  /\ PairRecord("hide", i)

\* The button of instance i fires: its listener toggles its list box and focuses
\* it when it is now visible; the focus change reaches every instance.
PairButtonFire(i) ==
  /\ LET c1 == [pairCore EXCEPT ![i] = ButtonListener(@, SharedDisplay)]
         f  == IF c1[i].visible THEN <<"listBox", i>> ELSE pairFocus
         c2 == IF f # pairFocus THEN PairNotifyFocus(c1, f) ELSE c1
     IN /\ pairCore' = c2
        /\ pairFocus' = PairBlur(c2, f)
  /\ PairRecord("fire", i)

\* A pointer-down at `place`: the display dispatches it to the dismiss listener of
\* every instance that has one attached; lucky[k] is instance k's random draw.
PairPointerDown(place, lucky) ==
  /\ place[1] # "null"
  /\ place[1] = "listBox" => pairCore[place[2]].visible
  /\ \A k \in Instances : lucky[k] => fuzzEnabled
  /\ pairCore' = [k \in Instances |->
                   IF SharedDisplay \in pairCore[k].on
                   THEN ClickToDismiss(pairCore[k], RelativeTo(k, place), lucky[k],
                                       SharedDisplay)
                   ELSE pairCore[k]]
  /\ pairFocus' = PairBlur(pairCore', pairFocus)
  /\ PairRecord("down", place[2])

\* pdomFocusProperty := f
PairFocusChange(f) ==
  /\ f # pairFocus
  /\ f[1] = "listBox" => pairCore[f[2]].visible
  /\ pairCore' = PairNotifyFocus(pairCore, f)
  /\ pairFocus' = PairBlur(pairCore', f)
  /\ PairRecord("focus", f[2])

PairNext ==
  \/ (\E i \in Instances : PairShowListBox(i)) /\ UNCHANGED notPair
  \/ (\E i \in Instances : PairHideListBox(i)) /\ UNCHANGED notPair
  \/ (\E i \in Instances : PairButtonFire(i)) /\ UNCHANGED notPair
  \/ (\E place \in PairPlaces, lucky \in [Instances -> BOOLEAN] :
        PairPointerDown(place, lucky)) /\ UNCHANGED notPair
  \/ (\E f \in PairPlaces : PairFocusChange(f)) /\ UNCHANGED notPair

(***************************************************************************)
(* Toggle buttons: ToggleButtonInteractionStateProperty                    *)
(***************************************************************************)

ToggleButtons == 1..NumToggleButtons

\* ButtonInteractionState, the enumeration of the three values.
ButtonInteractionState == {"IDLE", "OVER", "PRESSED"}

\* A derivation that lets the pointer's presence win over the pressed look.
ToggleInteractionStateOverFirst(ov, looksPressed) ==
  IF ov THEN "OVER" ELSE IF looksPressed THEN "PRESSED" ELSE "IDLE"

\* ToggleButtonInteractionStateProperty's derivation from over and looksPressed.
ToggleButtonInteractionState(ov, looksPressed) ==
  IF ov /\ ~looksPressed THEN "OVER"
  ELSE IF looksPressed THEN "PRESSED"
  ELSE "IDLE"

\* looksPressed of the button model: leaving the hit area while down clears it.
TbLooksPressed(ov, dn) == dn /\ ov

\* The derived property is recomputed whenever over or looksPressed changes.
TbDerive(ov, dn) ==
  [i \in ToggleButtons |-> ToggleButtonInteractionState(ov[i], TbLooksPressed(ov[i], dn[i]))]

TbAssign(ov, dn, en, op, i) ==
  /\ tbOver' = ov
  /\ tbDown' = dn
  /\ tbEnabled' = en
  /\ tbInteractionState' = TbDerive(ov, dn)
  /\ tbLast' = [op |-> op, button |-> i]

TbInit ==
  /\ tbOver = [i \in ToggleButtons |-> FALSE]
  /\ tbDown = [i \in ToggleButtons |-> FALSE]
  /\ tbEnabled = [i \in ToggleButtons |-> TRUE]
  /\ tbInteractionState = TbDerive(tbOver, tbDown)
  /\ tbLast = [op |-> "none", button |-> 0]

TbPointerEnter(i) ==
  /\ ~tbOver[i]
  /\ TbAssign([tbOver EXCEPT ![i] = TRUE], tbDown, tbEnabled, "pointerEnter", i)

TbPointerExit(i) ==
  /\ tbOver[i]
  /\ TbAssign([tbOver EXCEPT ![i] = FALSE], tbDown, tbEnabled, "pointerExit", i)

TbPointerDown(i) ==
  /\ tbEnabled[i] /\ tbOver[i] /\ ~tbDown[i]
  /\ TbAssign(tbOver, [tbDown EXCEPT ![i] = TRUE], tbEnabled, "pointerDown", i)

TbPointerUp(i) ==
  /\ tbDown[i]
  /\ TbAssign(tbOver, [tbDown EXCEPT ![i] = FALSE], tbEnabled, "pointerUp", i)

\* enabled is set; disabling interrupts a press in progress.
TbSetEnabled(i, b) ==
  /\ b # tbEnabled[i]
  /\ TbAssign(tbOver, IF b THEN tbDown ELSE [tbDown EXCEPT ![i] = FALSE],
              [tbEnabled EXCEPT ![i] = b], IF b THEN "enable" ELSE "disable", i)

TbNext ==
  \/ (\E i \in ToggleButtons : TbPointerEnter(i)) /\ UNCHANGED notTb
  \/ (\E i \in ToggleButtons : TbPointerExit(i)) /\ UNCHANGED notTb
  \/ (\E i \in ToggleButtons : TbPointerDown(i)) /\ UNCHANGED notTb
  \/ (\E i \in ToggleButtons : TbPointerUp(i)) /\ UNCHANGED notTb
  \/ (\E i \in ToggleButtons, b \in BOOLEAN : TbSetEnabled(i, b)) /\ UNCHANGED notTb

(***************************************************************************)
(* dispose() of the buttons: the view (super dispose) and the button model *)
(***************************************************************************)

PushButtons == {"RectangularPushButton", "RoundPushButton", "RoundPushButton2019"}
ValueButtons == {"RectangularMomentaryButton", "RectangularStickyToggleButton"}
Buttons == PushButtons \cup ValueButtons

\* A dispose that disposes the button model before the view, whatever the button.
DisposeOrderModelFirst(b) == <<"model", "view">>

\* dispose(): the statements of the method, in order. The push buttons call the
\* super dispose and then their dispose function (buttonModel.dispose()); the
\* momentary and sticky toggle buttons call their dispose function first.
DisposeOrder(b) ==
  IF b \in PushButtons THEN <<"view", "model">> ELSE <<"model", "view">>

IsDisposed(b, part) == \E n \in 1..Len(disposedParts[b]) : disposedParts[b][n] = part

BdInit ==
  /\ disposedParts = [b \in Buttons |-> <<>>]
  /\ disposeLast = "none"

\* The next statement of b's dispose() runs.
DisposeStep(b) ==
  /\ Len(disposedParts[b]) < Len(DisposeOrder(b))
  /\ disposedParts' =
       [disposedParts EXCEPT ![b] = Append(@, DisposeOrder(b)[Len(@) + 1])]
  /\ disposeLast' = b

BdNext ==
  \/ (\E b \in PushButtons : DisposeStep(b)) /\ UNCHANGED notBd
  \/ (\E b \in ValueButtons : DisposeStep(b)) /\ UNCHANGED notBd

(***************************************************************************)
(* ComboBoxButton: blockNextVoicingFocusListener / voicingFocusListener    *)
(***************************************************************************)

\* A voicingFocusListener that forgets to clear the flag.
BlockAfterFocusKept(block) == block

\* voicingFocusListener: this._blockNextVoicingFocusListener = false.
BlockAfterFocus(block) == FALSE

\* voicingFocusListener: the default listener is called unless blocked.
CallsDefaultFocusListener(block) == ~block

VoRecord(op, called) ==
  /\ voicingLast' = [op |-> op, called |-> called]
  /\ voicingPrev' = voicingLast

VoInit ==
  /\ blockNextVoicing = FALSE
  /\ voButtonFocused = FALSE
  /\ focusEvents = 0
  /\ defaultFocusCalls = 0
  /\ voicingLast = [op |-> "none", called |-> FALSE]
  /\ voicingPrev = [op |-> "none", called |-> FALSE]

\* The button receives a focus event: voicingFocusListener runs.
VoFocusEvent ==
  /\ focusEvents' = focusEvents + 1
  /\ defaultFocusCalls' =
       defaultFocusCalls + (IF CallsDefaultFocusListener(blockNextVoicing) THEN 1 ELSE 0)
  /\ blockNextVoicing' = BlockAfterFocus(blockNextVoicing)
  /\ voButtonFocused' = TRUE

\* Focus arrives at the button from the keyboard or from other code.
VoFocus ==
  /\ ~voButtonFocused
  /\ focusEvents < MaxFocusEvents
  /\ VoFocusEvent
  /\ VoRecord("focus", CallsDefaultFocusListener(blockNextVoicing))

\* Focus leaves the button.
VoBlur ==
  /\ voButtonFocused
  /\ voButtonFocused' = FALSE
  /\ VoRecord("blur", FALSE)
  /\ UNCHANGED <<blockNextVoicing, focusEvents, defaultFocusCalls>>

\* blockNextVoicingFocusListener()
BlockNextVoicingFocusListener ==
  /\ blockNextVoicing' = TRUE
  /\ VoRecord("block", FALSE)
  /\ UNCHANGED <<voButtonFocused, focusEvents, defaultFocusCalls>>

\* The list box's focus-button callback: blockNextVoicingFocusListener(), then
\* button.focus(), which raises a focus event unless the button has focus already.
VoFocusButtonCallback ==
  /\ focusEvents < MaxFocusEvents
  /\ IF voButtonFocused
     THEN /\ blockNextVoicing' = TRUE
          /\ UNCHANGED <<voButtonFocused, focusEvents, defaultFocusCalls>>
     ELSE /\ focusEvents' = focusEvents + 1
          /\ defaultFocusCalls' =
               defaultFocusCalls + (IF CallsDefaultFocusListener(TRUE) THEN 1 ELSE 0)
          /\ blockNextVoicing' = BlockAfterFocus(TRUE)
          /\ voButtonFocused' = TRUE
  /\ VoRecord("focusButton", FALSE)

VoNext ==
  \/ VoFocus /\ UNCHANGED notVo
  \/ VoBlur /\ UNCHANGED notVo
  \/ BlockNextVoicingFocusListener /\ UNCHANGED notVo
  \/ VoFocusButtonCallback /\ UNCHANGED notVo

(***************************************************************************)
(* RadioButton (2017): setEnabled / getEnabled, fire from pointer and PDOM *)
(***************************************************************************)

\* getEnabled(): return this._enabled.
GetEnabled(i) == rbEnabled[i]

\* fire(): property.set( value ), with no test of _enabled.
RbFire(i) == rbProperty' = RadioValue(i)

RbRecord(op, i, arg) == rbLast' = [op |-> op, button |-> i, arg |-> arg]

RbInit ==
  /\ rbProperty = RadioValue(1)
  /\ rbEnabled = [i \in Radios |-> TRUE]
  /\ rbPickable = [i \in Radios |-> TRUE]
  /\ rbLast = [op |-> "none", button |-> 0, arg |-> FALSE]

\* setEnabled( enabled ): _enabled and pickable are both set to it.
SetEnabled(i, e) ==
  /\ rbEnabled' = [rbEnabled EXCEPT ![i] = e]
  /\ rbPickable' = [rbPickable EXCEPT ![i] = e]
  /\ RbRecord("setEnabled", i, e)
  /\ UNCHANGED rbProperty

\* A pointer press and release on the button: only a pickable node is hit, and
\* buttonListener then calls fire().
RbPointerFire(i) ==
  /\ rbPickable[i]
  /\ RbFire(i)
  /\ RbRecord("fire", i, FALSE)
  /\ UNCHANGED <<rbEnabled, rbPickable>>

\* 'change' on the button's accessible input element: the accessible input
\* listener calls fire(); pickable plays no part in its delivery.
RbAccessibleChange(i) ==
  /\ RbFire(i)
  /\ RbRecord("change", i, FALSE)
  /\ UNCHANGED <<rbEnabled, rbPickable>>

\* Other code sets the property.
RbSetProperty(v) ==
  /\ v # rbProperty
  /\ rbProperty' = v
  /\ RbRecord("set", v, FALSE)
  /\ UNCHANGED <<rbEnabled, rbPickable>>

RbNext ==
  \/ (\E i \in Radios, e \in BOOLEAN : SetEnabled(i, e)) /\ UNCHANGED notRb
  \/ (\E i \in Radios : RbPointerFire(i)) /\ UNCHANGED notRb
  \/ (\E i \in Radios : RbAccessibleChange(i)) /\ UNCHANGED notRb
  \/ (\E v \in Radios \cup {NoRadioValue} : RbSetProperty(v)) /\ UNCHANGED notRb

(***************************************************************************)
(* Specifications                                                          *)
(***************************************************************************)

Init == PushInit /\ SpinInit /\ ComboInit /\ LegacyInit /\ MomentaryInit /\ RadioInit /\ ToggleInit /\ PairInit /\ TbInit /\ BdInit /\ VoInit /\ RbInit

SpecPush == Init /\ [][PushNext]_vars

SpecSpinner == Init /\ [][SpinNext]_vars

SpecComboBox == Init /\ [][ComboNext]_vars

SpecLegacyComboBox == Init /\ [][LegacyNext]_vars

SpecMomentary == Init /\ [][MomentaryNext]_vars

SpecRadio == Init /\ [][RadioNext]_vars

\* Activations of the radio buttons and of the toggle button.
ActivationNext == RadioNext \/ ToggleNext

SpecActivation == Init /\ [][ActivationNext]_vars

SpecComboBoxes == Init /\ [][PairNext]_vars

SpecToggleButtons == Init /\ [][TbNext]_vars

SpecButtonDispose == Init /\ [][BdNext]_vars

SpecVoicing == Init /\ [][VoNext]_vars

SpecRadioButton == Init /\ [][RbNext]_vars

Next == PushNext \/ SpinNext \/ ComboNext \/ LegacyNext \/ MomentaryNext \/ RadioNext \/ ToggleNext \/ PairNext \/ TbNext \/ BdNext \/ VoNext \/ RbNext

Spec == Init /\ [][Next]_vars

(***************************************************************************)
(* Claims                                                                  *)
(***************************************************************************)

\* C2: PushButtonModel with fireOnDown=false and enabled=true: in every step the
\* listeners fire (once) exactly when down goes from true to false while over is
\* true; a release while over is false fires nothing, and so does every other
\* flag change.
C2_FiresExactlyOnReleaseWhileOver ==
  [][ (~fireOnDown /\ enabled /\ enabled') =>
        /\ (fireCount' = fireCount + 1) <=> (down /\ ~down' /\ over)
        /\ fireCount' \in {fireCount, fireCount + 1} ]_vars

\* C2 witness: a press that left the hit area, returned and was released over the
\* button has fired.
C2_Witness_FiredAfterLeavingAndReturning ==
  /\ ~fireOnDown /\ enabled /\ over /\ ~down
  /\ leftWhileDown
  /\ pushLast = [prop |-> "down", value |-> FALSE]
  /\ fireCount = 1

\* The actions performed since the keydown that started a timer running for `ms`
\* milliseconds: the immediate one, none during timerDelay, then one at timerDelay
\* and one per timerInterval after it.
ExpectedActions(ms) ==
  1 + (IF ms < timerDelay THEN 0 ELSE 1 + ((ms - timerDelay) \div timerInterval))

\* C3: a keydown of a range key (enabled, no meta key, no timer running, the
\* input listener still attached) performs
\* the action once and starts the timer with the first repeat due after timerDelay;
\* while the timer runs, the actions performed since that keydown are the immediate
\* one, none before timerDelay has elapsed, and one per timerInterval from then on.
C3_ImmediateActionThenDelayThenInterval ==
  /\ [](TimerIsRunning => actionCount - startCount = ExpectedActions(sinceStart))
  /\ [][ (/\ spinLast'.type = "keydown" /\ spinLast'.key \in RangeKeys
          /\ ~spinLast'.meta /\ spinnerEnabled /\ ~TimerIsRunning /\ spinListenerOn)
        => (/\ actionCount' = actionCount + 1
            /\ timerPhase' = "delay" /\ timerWait' = timerDelay
            /\ runningTimerCallbackEvent' = spinLast'.key) ]_vars

\* C3 witness: a held key has been repeating for two intervals after the delay.
C3_Witness_Repeating ==
  /\ timerPhase = "interval"
  /\ sinceStart = timerDelay + 2 * timerInterval
  /\ actionCount = startCount + 4

\* C7: while the timer runs, keyup of a range key other than the one that started
\* it changes neither the timer, its callbacks nor the tracked key; keyup of the
\* same key stops the timer, removes the callback and clears the tracked key, and
\* a stopped timer performs no action as time passes.
C7_OnlyKeyupOfTheHeldKeyStopsRepeat ==
  /\ [][ (spinLast'.type = "keyup" /\ spinLast'.key \in RangeKeys /\ TimerIsRunning)
        => IF spinLast'.key = runningTimerCallbackEvent
           THEN /\ timerPhase' = "stopped" /\ timerCallbacks' = <<>>
                /\ runningTimerCallbackEvent' = NoKey /\ downCallback' = NoKey
           ELSE UNCHANGED <<timerPhase, timerWait, timerCallbacks, actionCount,
                            runningTimerCallbackEvent, downCallback>> ]_vars
  /\ [][ (spinLast'.type = "tick" /\ ~TimerIsRunning) => actionCount' = actionCount ]_vars

\* C7 witness: a different range key was released while the held key was
\* repeating, and the timer is still in its interval phase.
C7_Witness_OtherKeyupLeavesTimerRunning ==
  /\ spinLast.type = "keyup" /\ spinLast.key \in RangeKeys /\ spinLast.wasRunning
  /\ spinLast.key # runningTimerCallbackEvent
  /\ timerPhase = "interval"

\* C8: a blur that arrives while the timer is armed or repeating stops the timer
\* and leaves no callback registered; with the timer stopped only a keydown
\* performs an action.
C8_BlurStopsRepeat ==
  /\ []((spinLast.type = "blur" /\ spinLast.wasRunning)
         => (timerPhase = "stopped" /\ timerCallbacks = <<>>))
  /\ [][ (~TimerIsRunning /\ spinLast'.type # "keydown")
         => actionCount' = actionCount ]_vars

\* C8 witness: focus was lost while a key was repeating.
C8_Witness_BlurWhileRepeating ==
  /\ spinLast.type = "blur" /\ spinLast.wasRunning
  /\ actionCount >= startCount + 2
  /\ ~TimerIsRunning

\* C9: the timer never holds more than one callback, and a keydown that arrives
\* while the timer runs performs no action, registers nothing and keeps the
\* tracked key.
C9_AtMostOneRepeat ==
  /\ [](Len(timerCallbacks) <= 1)
  /\ [][ (spinLast'.type = "keydown" /\ TimerIsRunning)
        => UNCHANGED <<actionCount, timerCallbacks, runningTimerCallbackEvent,
                       downCallback, timerPhase, timerWait>> ]_vars

\* C9 witness: another range key went down (enabled, no meta key) while a key was
\* repeating.
C9_Witness_SecondKeydownWhileRunning ==
  /\ spinLast.type = "keydown" /\ spinLast.wasRunning
  /\ spinLast.key \in RangeKeys /\ ~spinLast.meta /\ spinnerEnabled
  /\ spinLast.key # runningTimerCallbackEvent
  /\ Len(timerCallbacks) = 1

\* C1: until dispose, the dismiss listener is on some display exactly when the list
\* box is visible; it is then on exactly one display, the one recorded in `display`,
\* which is the display the ComboBox was rooted in when the list was shown; and
\* `display` is null exactly when the list is hidden.
C1_DismissListenerAttachedIffVisible ==
  ~comboDisposed =>
    /\ (dismissListenerOn # {}) <=> listBoxVisible
    /\ (display = NoDisplay) <=> ~listBoxVisible
    /\ listBoxVisible => (dismissListenerOn = {display} /\ display = rootedAtShow)
    /\ ~listBoxVisible => dismissListenerOn = {}

\* C1 witness: the list was shown, the ComboBox then moved to another display, and
\* the listener is still on the recorded display only.
C1_Witness_RootedDisplayChangedWhileOpen ==
  /\ ~comboDisposed /\ listBoxVisible
  /\ rootedDisplay # display
  /\ dismissListenerOn = {display}

\* C4: with fuzzing disabled, a pointer-down delivered to the dismiss listener
\* while the list is open leaves the list hidden and the listener detached when
\* its trail contains neither the button nor the list box, and leaves the list
\* open and the listener attached when its trail contains one of them.
C4_OutsideDownDismisses ==
  (/\ ~fuzzEnabled /\ ~comboDisposed
   /\ comboLast.op = "down" /\ comboLast.delivered /\ comboLast.wasVisible)
  => IF comboLast.target = "other"
     THEN ~listBoxVisible /\ dismissListenerOn = {} /\ display = NoDisplay
     ELSE listBoxVisible /\ dismissListenerOn = {display} /\ display # NoDisplay

\* C4 witness: an outside pointer-down reached the listener of an open list.
C4_Witness_OutsideDownWhileOpen ==
  /\ ~fuzzEnabled /\ ~comboDisposed
  /\ comboLast.op = "down" /\ comboLast.delivered /\ comboLast.wasVisible
  /\ comboLast.target = "other"
  /\ ~listBoxVisible

\* C6: every fire of the button inverts the list box's visibility, and a fire that
\* directly follows a pointer-down on the button made while the list was open
\* (and seen by the dismiss listener) leaves the list closed.
C6_ButtonFireToggles ==
  /\ [][ comboLast'.op = "fire" => listBoxVisible' = ~listBoxVisible ]_vars
  /\ []((/\ comboLast.op = "fire"
          /\ comboPrev.op = "down" /\ comboPrev.target = "button"
          /\ comboPrev.delivered /\ comboPrev.wasVisible)
         => ~listBoxVisible)

\* C6 witness: a press on the button of an open ComboBox (down, then fire) has
\* closed the list.
C6_Witness_PressOnButtonWhileOpen ==
  /\ comboLast.op = "fire"
  /\ comboPrev.op = "down" /\ comboPrev.target = "button"
  /\ comboPrev.delivered /\ comboPrev.wasVisible
  /\ ~listBoxVisible /\ dismissListenerOn = {}

\* C5: selecting an item of the open list (pointer 'up' on it, or enter / space on
\* it) leaves the list closed, the value cell at the item's value and the dismiss
\* listener on no display.
C5_ItemSelectionCloses ==
  (legacyLast.op \in {"itemUp", "itemKey"} /\ legacyLast.wasVisible)
  => /\ ~listNodeVisible
     /\ legacyValue = legacyLast.item
     /\ legacyListenerOn = {}

\* C5 witness: an item other than the current one was clicked in a list opened
\* from the button.
C5_Witness_ItemClicked ==
  /\ legacyLast = [op |-> "itemUp", item |-> 2, wasVisible |-> TRUE]
  /\ legacyDisplay # NoDisplay
  /\ legacyValue = 2 /\ ~listNodeVisible

\* C10 as stated: the controlled value is valueOn if and only if the model is
\* down and over.
C10_ValueOnIffDownAndOver ==
  (momentaryValue = "valueOn") <=> (momentaryDown /\ momentaryOver)

\* C10, amended: the controlled value is valueOn if and only if the model is down
\* (over or not), and right after a pointer-cancel, a blur or a disable the value
\* is valueOff.
C10_ValueOnIffDown ==
  /\ (momentaryValue = "valueOn") <=> momentaryDown
  /\ momentaryLast.op \in {"pointerCancel", "focusOut", "disable"}
       => momentaryValue = "valueOff"

\* C10 witness: the press was cancelled while the value was on and the pointer had
\* been dragged off the button.
C10_Witness_CancelAfterDragOff ==
  /\ momentaryLast = [op |-> "pointerCancel", wasOn |-> TRUE, wasOver |-> FALSE]
  /\ momentaryValue = "valueOff"

\* C11 as stated: at most one button reports SELECTED, and exactly one does whenever
\* the Property holds one of the group's values.
C11_ExactlyOneReportsSelected ==
  LET selected == {i \in Radios : RadioState(i) = "SELECTED"}
  IN /\ Cardinality(selected) <= 1
     /\ radioProperty \in {RadioValue(i) : i \in Radios} => Cardinality(selected) = 1

\* C11, amended: at most one button reports SELECTED and at most one shows its
\* selected node; whenever the Property holds one of the group's values exactly
\* the button with that value shows its selected node, and that button reports
\* SELECTED unless it is being pressed, when it reports PRESSED.
C11_OneSelectedNodeAndSelectedUnlessPressed ==
  LET selected == {i \in Radios : RadioState(i) = "SELECTED"}
      shown == {i \in Radios : selectedNodeVisible[i]}
  IN /\ Cardinality(selected) <= 1
     /\ Cardinality(shown) <= 1
     /\ \A i \in Radios :
          radioProperty = RadioValue(i) =>
            /\ shown = {i}
            /\ RadioState(i) =
                 IF (radioOver[i] \/ radioFocus = i) /\ RadioLooksPressed(i)
                 THEN "PRESSED" ELSE "SELECTED"
            /\ selected \subseteq {i}

\* C11 witness: the selection has moved to the second button by an activation, and
\* that button is now being pressed again.
C11_Witness_SelectedButtonPressed ==
  /\ radioProperty = RadioValue(2) /\ radioActivations > 0
  /\ selectedNodeVisible[2] /\ ~selectedNodeVisible[1]
  /\ RadioState(2) = "PRESSED"

\* C12 as stated: a release that ends a press during which the button was disabled
\* at some moment fires nothing, also when the button is enabled again by then.
C12_DisabledPressDoesNotFire ==
  [][ (down /\ ~down' /\ disabledWhileDown) => fireCount' = fireCount ]_vars

\* C13: with fireOnDown=true the listeners fire on down -> true while enabled and
\* the release fires nothing; under either policy a press-release cycle fires at
\* most once.
C13_FireOnDownFiresOncePerPress ==
  /\ [][ (fireOnDown /\ ~down /\ down')
           => fireCount' = IF enabled THEN fireCount + 1 ELSE fireCount ]_vars
  /\ [][ (fireOnDown /\ down /\ ~down') => fireCount' = fireCount ]_vars
  /\ [](firesThisPress <= 1)

\* C13 witness: a fireOnDown button has fired on the press and has been released
\* over the button, enabled, with nothing more fired.
C13_Witness_FiredOnDownThenReleased ==
  /\ fireOnDown /\ enabled /\ over /\ ~down
  /\ pushLast = [prop |-> "down", value |-> FALSE]
  /\ firesThisPress = 1

\* C14 as stated: every logical activation runs the fire action once, however it
\* is delivered: a radio button's activation calls fire() (and plays the sound)
\* once, and a toggle button's activation leaves the value toggled once.
C14_ActivationFiresOnce ==
  /\ [][ radioActivations' = radioActivations + 1
           => radioFireCalls' = radioFireCalls + 1 ]_vars
  /\ [][ toggleActivations' = toggleActivations + 1
           => toggleValue' = ~toggleValue ]_vars

\* C15: hideListBox on a closed ComboBox changes nothing: the list stays hidden,
\* `display` stays null and no display gains or loses the dismiss listener; and
\* in every reachable state hideListBox applied twice gives what it gives applied
\* once.
C15_HideListBoxIdempotent ==
  /\ [][ (comboLast'.op = "hide" /\ ~listBoxVisible)
           => /\ UNCHANGED <<listBoxVisible, display, dismissListenerOn, assertFailed>>
              /\ display' = NoDisplay /\ dismissListenerOn' = {} ]_vars
  /\ [](LET once == HideListBoxCore(ComboCore, rootedDisplay)
        IN HideListBoxCore(once, rootedDisplay) = once)

\* C15 witness: hideListBox was called twice in a row, the first call on an open
\* list.
C15_Witness_HiddenTwice ==
  /\ comboLast.op = "hide" /\ ~comboLast.wasVisible
  /\ comboPrev.op = "hide" /\ comboPrev.wasVisible
  /\ ~listBoxVisible /\ display = NoDisplay

\* C16: a change of PDOM focus that reaches the focus listener leaves the list
\* hidden and the dismiss listener detached when the focus is non-null and its
\* trail does not contain the list box, and leaves the visibility as it was when
\* the focus is null or in the list box.
C16_FocusOutsideDismisses ==
  (~comboDisposed /\ comboLast.op = "focus" /\ comboLast.delivered)
  => IF comboLast.target \in {"null", "listBox"}
     THEN listBoxVisible = comboLast.wasVisible
     ELSE ~listBoxVisible /\ dismissListenerOn = {} /\ display = NoDisplay

\* C16 witness: focus moved outside an open list box and closed it.
C16_Witness_FocusLeftOpenList ==
  /\ ~comboDisposed /\ comboLast.op = "focus" /\ comboLast.delivered
  /\ comboLast.target = "other" /\ comboLast.wasVisible
  /\ ~listBoxVisible

\* C17: pickable is the negation of displayOnly after every change of
\* displayOnly, and a change of displayOnly (to true in particular) leaves the
\* list hidden and the dismiss listener detached.
C17_DisplayOnlyHidesList ==
  ~comboDisposed =>
    /\ pickable = ~displayOnly
    /\ (comboLast.op = "displayOnly" /\ comboLast.delivered)
         => (~listBoxVisible /\ dismissListenerOn = {} /\ display = NoDisplay)

\* C17 witness: displayOnly became true while the list was open.
C17_Witness_DisplayOnlyWhileOpen ==
  /\ ~comboDisposed /\ comboLast.op = "displayOnly" /\ comboLast.delivered
  /\ comboLast.wasVisible /\ displayOnly
  /\ ~listBoxVisible /\ ~pickable

\* C18: the 'unexpected display' assertion never fails.
C18_NoUnexpectedDisplay == ~assertFailed

\* C18 witness: showListBox was called on an open ComboBox; the dismiss listener
\* is still on the recorded display only and the assertion has not failed.
C18_Witness_ShowListBoxWhileOpen ==
  /\ comboLast.op = "show" /\ comboLast.wasVisible
  /\ listBoxVisible /\ dismissListenerOn = {display}
  /\ ~assertFailed

\* C20: once disposed, the dismiss listener is on no display and the focus
\* listener is unlinked, and no step changes the list box's visibility.
C20_DisposedIsDetached ==
  /\ [](comboDisposed => (dismissListenerOn = {} /\ ~focusListenerLinked))
  /\ [][ comboDisposed => listBoxVisible' = listBoxVisible ]_vars

\* C20 witness: the ComboBox was disposed with its list open, and an outside
\* pointer-down and a focus change have arrived since.
C20_Witness_EventsAfterDisposeWhileOpen ==
  /\ comboDisposed /\ listBoxVisible
  /\ comboLast.op = "focus" /\ comboLast.target = "other"
  /\ comboPrev.op = "down" /\ comboPrev.target = "other"

\* C19 as stated: at most one instance's dismiss listener is attached to the
\* shared display (at most one list is open) at a time.
C19_AtMostOneDismissListener ==
  /\ Cardinality({k \in Instances : pairCore[k].on # {}}) <= 1
  /\ Cardinality(PairOpen) <= 1

\* C19, amended: when the button of one instance fires and opens its list, every
\* other instance's list is closed and its dismiss listener detached when the
\* fire returns.
C19_ButtonOpeningClosesOthers ==
  (pairLast.op = "fire" /\ pairLast.instance \in PairOpen)
  => \A k \in Instances \ {pairLast.instance} :
       ~pairCore[k].visible /\ pairCore[k].on = {} /\ pairCore[k].display = NoDisplay

\* C19 witness: the button of the first instance opened its list while the list
\* of the second was open.
C19_Witness_OpenedWhileOtherOpen ==
  /\ pairLast = [op |-> "fire", instance |-> 1, wasOpen |-> {2}]
  /\ pairCore[1].visible /\ pairCore[1].on = {SharedDisplay}
  /\ ~pairCore[2].visible

\* C21: once dispose has returned the repeat timer is stopped and the input
\* listener removed, and no later step performs an action or emits a key state.
C21_DisposedSpinnerIsSilent ==
  /\ [](spinDisposed => (~TimerIsRunning /\ ~spinListenerOn))
  /\ [][ spinDisposed' => (actionCount' = actionCount /\ spinEmitted' = {}) ]_vars

\* C21 witness: the spinner was disposed while a key was held and the timer was
\* running, and time has passed since.
C21_Witness_DisposedWhileRepeating ==
  /\ spinDisposed /\ downCallback # NoKey
  /\ spinLast.type = "tick"
  /\ actionCount >= 2

\* C22: a keydown of a range key with the meta key held, on an enabled spinner,
\* prevents the default and nothing else: no action, no key-state emission, and
\* the timer, its callbacks and the tracked key are as before.
C22_MetaKeydownOnlyPreventsDefault ==
  [][ (/\ spinLast'.type = "keydown" /\ spinLast'.meta
       /\ spinLast'.key \in RangeKeys /\ spinnerEnabled /\ spinListenerOn)
      => /\ spinLast'.prevented
         /\ spinEmitted' = {}
         /\ UNCHANGED <<actionCount, timerCallbacks, timerPhase, timerWait,
                        downCallback, runningTimerCallbackEvent>> ]_vars

\* C22 witness: a range key went down with the meta key held while no timer was
\* running, and no timer is running.
C22_Witness_MetaKeydownWhileIdle ==
  /\ spinLast.type = "keydown" /\ spinLast.meta /\ spinLast.key = "ArrowUp"
  /\ spinLast.prevented /\ ~spinLast.wasRunning
  /\ ~TimerIsRunning /\ timerCallbacks = <<>>

\* The keys an emission of the last step can stem from: the key of the keydown or
\* keyup, the keys bound to the timer's callbacks, the tracked key on blur.
EmissionKeys ==
  IF spinLast.type \in {"keydown", "keyup"} THEN {spinLast.key}
  ELSE IF spinLast.type = "tick" THEN {timerCallbacks[i] : i \in 1..Len(timerCallbacks)}
  ELSE IF spinLast.type = "blur" THEN {runningTimerCallbackEvent}
  ELSE {}

\* C23: incrementDownEmitter emits only for the up and right arrow keys,
\* decrementDownEmitter only for the down and left arrow keys, and a step caused by
\* page-up, page-down, home or end emits nothing.
C23_KeyStateOnlyForArrowKeys ==
  /\ \A e \in spinEmitted :
       /\ e.emitter = "incrementDown" => EmissionKeys \cap {"ArrowUp", "ArrowRight"} # {}
       /\ e.emitter = "decrementDown" => EmissionKeys \cap {"ArrowDown", "ArrowLeft"} # {}
  /\ EmissionKeys \subseteq {"PageUp", "PageDown", "Home", "End"} => spinEmitted = {}

\* C23 witness: page-up is held and has repeated, and the repeat emitted nothing.
C23_Witness_PageUpRepeats ==
  /\ spinLast.type = "tick" /\ timerCallbacks = <<"PageUp">>
  /\ timerPhase = "interval" /\ timerWait = timerInterval
  /\ actionCount >= 2 /\ spinEmitted = {}

\* C24 as stated: the push button's interaction state is 'disabled' when not
\* enabled, otherwise 'pressed' when down, otherwise 'over' when over, otherwise
\* 'idle'; so a button that is down with the pointer off it reads 'pressed'.
C24_PressedWheneverDown ==
  PushInteractionState(over, down, enabled) =
    (IF ~enabled THEN "disabled"
     ELSE IF down THEN "pressed"
     ELSE IF over THEN "over"
     ELSE "idle")

\* C24 amended: the interaction state is 'disabled' when not enabled; otherwise
\* 'over' when over and not down, 'pressed' when over and down, and 'idle' when
\* not over, whether down or not.
C24_PressedOnlyWhileOver ==
  /\ ~enabled => PushInteractionState(over, down, enabled) = "disabled"
  /\ (enabled /\ over /\ ~down) => PushInteractionState(over, down, enabled) = "over"
  /\ (enabled /\ over /\ down) => PushInteractionState(over, down, enabled) = "pressed"
  /\ (enabled /\ ~over) => PushInteractionState(over, down, enabled) = "idle"

\* C24 witness: the enabled button is held down after the pointer has left it, and
\* its interaction state is 'idle'.
C24_Witness_DownOffButtonIsIdle ==
  /\ enabled /\ down /\ ~over /\ leftWhileDown
  /\ PushInteractionState(over, down, enabled) = "idle"

C26_ToggleStateFromOverAndLooksPressed ==
  /\ [](\A i \in ToggleButtons :
          LET lp == TbLooksPressed(tbOver[i], tbDown[i])
          IN /\ tbInteractionState[i] \in ButtonInteractionState
             /\ (tbInteractionState[i] = "PRESSED") <=> lp
             /\ (tbInteractionState[i] = "OVER") <=> (tbOver[i] /\ ~lp)
             /\ (tbInteractionState[i] = "IDLE") <=> (~tbOver[i] /\ ~lp))
  /\ [][ \A i \in ToggleButtons :
           (/\ tbOver'[i] = tbOver[i]
            /\ TbLooksPressed(tbOver'[i], tbDown'[i]) = TbLooksPressed(tbOver[i], tbDown[i]))
           => tbInteractionState'[i] = tbInteractionState[i] ]_vars

\* C26 witness: one button is disabled under the pointer and reads OVER while the
\* other is pressed and reads PRESSED.
C26_Witness_DisabledOverAndPressed ==
  /\ ~tbEnabled[1] /\ tbOver[1] /\ tbInteractionState[1] = "OVER"
  /\ tbDown[2] /\ tbOver[2] /\ tbInteractionState[2] = "PRESSED"
  /\ tbLast.op = "disable"

\* C28: firing a radio button sets the shared Property to that button's value
\* whatever it held before, after which that button's selected node is visible
\* and its deselected node hidden; firing the button whose value the Property
\* already holds changes neither the Property nor any node.
C28_FireSelectsTheButton ==
  [][ radioLast'.op = "activate"
      => /\ radioProperty' = RadioValue(radioLast'.button)
         /\ selectedNodeVisible'[radioLast'.button]
         /\ ~DeselectedNodeVisible(selectedNodeVisible', radioLast'.button)
         /\ radioProperty = RadioValue(radioLast'.button)
              => UNCHANGED <<radioProperty, selectedNodeVisible>> ]_vars

\* C28 witness: the second button was fired once; the Property holds its value and
\* it alone shows its selected node.
C28_Witness_SecondButtonFired ==
  /\ radioLast = [op |-> "activate", button |-> 2, both |-> FALSE]
  /\ radioActivations = 1
  /\ radioProperty = RadioValue(2)
  /\ selectedNodeVisible = [i \in Radios |-> i = 2]

\* C29: after showList the click-to-dismiss listener ignores one 'down' only, the
\* one that opened the list: a press on the button of a hidden list leaves the
\* list visible, and every 'down' that reaches the listener while the list is
\* already visible hides it, whether the list was opened by a pointer press or by
\* an accessibility click.
C29_OnlyTheOpeningDownIsIgnored ==
  [][ /\ (legacyLast'.op = "buttonDown" /\ ~listNodeVisible) => listNodeVisible'
      /\ (/\ legacyLast'.op \in {"buttonDown", "outsideDown"}
          /\ legacyDelivered' /\ listNodeVisible)
         => ~listNodeVisible' ]_vars

\* C30: choosing an item with the Enter key leaves the value cell at that item's
\* value and the list hidden; the button 'click' that follows does not reopen the
\* list and consumes the guard; a 'click' on the button of a hidden list with no
\* guard pending, such as the next one, opens the list.
C30_EnterGuardSwallowsOneClick ==
  /\ [][ (legacyLast'.op = "itemKey" /\ fromA11yEnterKey')
         => (legacyValue' = legacyLast'.item /\ ~listNodeVisible') ]_vars
  /\ [][ (/\ legacyLast.op = "itemKey" /\ fromA11yEnterKey
          /\ legacyLast'.op = "buttonClick")
         => (~listNodeVisible' /\ ~fromA11yEnterKey') ]_vars
  /\ [][ (legacyLast'.op = "buttonClick" /\ ~listNodeVisible /\ ~fromA11yEnterKey)
         => listNodeVisible' ]_vars

\* C30 witness: the second item was chosen with Enter and the click that followed
\* left the list hidden and the guard cleared.
C30_Witness_ClickAfterEnterSwallowed ==
  /\ legacyPrev = [op |-> "itemKey", item |-> 2, wasVisible |-> TRUE]
  /\ legacyLast = [op |-> "buttonClick", item |-> 0, wasVisible |-> FALSE]
  /\ legacyValue = 2 /\ ~listNodeVisible /\ ~fromA11yEnterKey

\* C34: a blur during a held key returns the spinner to idle, so that the event
\* right after a blur, when it is the keyup of a range key or another blur, emits
\* no key-state event and leaves the timer and its callbacks alone.
C34_BlurReturnsToIdle ==
  [][ (/\ spinLast.type = "blur" /\ spinListenerOn
       /\ \/ spinLast'.type = "blur"
          \/ spinLast'.type = "keyup" /\ spinLast'.key \in RangeKeys)
      => (spinEmitted' = {} /\ UNCHANGED <<timerPhase, timerWait, timerCallbacks>>) ]_vars

\* C35: while the spinner is disabled the repeat timer performs no action, also
\* when it was disabled with a key held and the timer armed or repeating.
C35_NoRepeatWhileDisabled ==
  [][ (~spinnerEnabled /\ spinLast'.type = "tick") => actionCount' = actionCount ]_vars

C38_ValueButtonViewBeforeModel ==
  \A b \in ValueButtons : IsDisposed(b, "model") => IsDisposed(b, "view")

\* C32: once the ComboBox is disposed every one of its list item nodes has been
\* disposed.
C32_DisposeDisposesEveryItem ==
  legacyDisposed => legacyItemsDisposed = Items

\* C33: blockNextVoicingFocusListener suppresses the default focus response for
\* the next focus event only: a focus event calls the default focus listener
\* exactly when the flag is clear and always leaves the flag clear, and the flag
\* is set by blockNextVoicingFocusListener alone.
C33_BlocksExactlyTheNextFocus ==
  /\ [][ focusEvents' = focusEvents + 1
         => /\ blockNextVoicing' = FALSE
            /\ defaultFocusCalls' =
                 (IF blockNextVoicing \/ voicingLast'.op = "focusButton"
                  THEN defaultFocusCalls ELSE defaultFocusCalls + 1) ]_vars
  /\ [][ focusEvents' = focusEvents => defaultFocusCalls' = defaultFocusCalls ]_vars
  /\ [][ (blockNextVoicing' /\ ~blockNextVoicing)
         => voicingLast'.op \in {"block", "focusButton"} ]_vars
  /\ [][ voicingLast'.op = "block" => blockNextVoicing' ]_vars

\* C33 witness: after a block, the first focus event was not answered by the
\* default listener and a later one was.
C33_Witness_SecondFocusAnswered ==
  /\ voicingLast = [op |-> "focus", called |-> TRUE]
  /\ focusEvents = 2 /\ defaultFocusCalls = 1
  /\ voicingPrev.op = "blur"
  /\ ~blockNextVoicing

\* C36: while a RadioButton is disabled no input event on it (pointer fire or
\* accessible 'change') changes the property, and setEnabled(e) leaves
\* getEnabled() = e and pickable = e.
C36_DisabledRadioButtonIgnoresInput ==
  /\ [][ (/\ rbLast'.op \in {"fire", "change"}
          /\ rbLast'.button \in Radios
          /\ ~GetEnabled(rbLast'.button))
         => rbProperty' = rbProperty ]_vars
  /\ [](rbLast.op = "setEnabled"
         => (GetEnabled(rbLast.button) = rbLast.arg /\ rbPickable[rbLast.button] = rbLast.arg))

\* C37: right after the button was activated while the list was closed, PDOM
\* focus is in the list box, the list is visible and the dismiss listener is on
\* the display: the focus notification caused by the opening did not dismiss it.
C37_OpeningFocusDoesNotDismiss ==
  (comboLast.op = "fire" /\ ~comboLast.wasVisible)
  => /\ listBoxVisible
     /\ pdomFocus = "listBox"
     /\ display # NoDisplay /\ dismissListenerOn = {display}

\* C37 witness: the button was activated while focus was outside the list box and
\* the focus listener linked; the list is open with focus inside it.
C37_Witness_OpenedWithFocusMoved ==
  /\ comboLast.op = "fire" /\ ~comboLast.wasVisible
  /\ comboPrev.op = "focus" /\ comboPrev.target = "other"
  /\ focusListenerLinked /\ ~comboDisposed
  /\ listBoxVisible /\ pdomFocus = "listBox"

====
